---- MODULE Spec2Model ----
(***************************************************************************)
(* Breakout-room assignment: the three heuristic solvers of                *)
(* src/algorithms (greedy construction + local search, simulated           *)
(* annealing, genetic algorithm) and the shared evaluator of src/utils.py. *)
(*                                                                         *)
(* Numbers.  Happiness, stress and the stress budget are small naturals.   *)
(* The code compares  room_stress <= s / num_rooms  in floating point; for *)
(* integer stress and budget this is the same as                           *)
(* room_stress * num_rooms <= s, which is how the model writes it.         *)
(* Every random draw of the code (shuffle, sample, choice, randint,        *)
(* random) is a nondeterministic choice (\E) over the values it can give.  *)
(***************************************************************************)
EXTENDS Integers, Sequences, FiniteSets, TLC

\* ---------------------------------------------------------------- bounds
MaxHappiness == 1
MaxStress == 2
MaxBudget == 3
MaxIterCap == 1
MaxGenerations == 1

\* node counts of the graphs the solvers are run on
NodeCounts == 1 .. 3

\* Defaults of the solvers' parameters.
DefaultMaxLocalSearchIterations == 1000
default_population_size == 50
default_generations == 200
tournament_size == 3
elite_count == 2

\* float('-inf'): below every fitness
MinusInfinity == 0 - 1000000

VARIABLES
    solver,             \* which entry point was called
    graph,              \* [n, happiness, stress]: the caller's Graph
    stress_budget,      \* the caller's budget s
    max_local_search_iterations,  \* parameter of greedy_local_search
    pc,                 \* position in the running solver
    edges,              \* greedy_construction / greedy_init: ranked pair list
    edge_idx,           \* index of the next pair of `edges` to process
    assignment,         \* working assignment (student -> room)
    rooms,              \* greedy_construction / greedy_init: room -> member list
    room_stress,        \* greedy_construction / greedy_init: room -> cached stress
    best_assignment,    \* local_search / simulated_annealing
    best_happiness,     \* local_search / simulated_annealing
    iteration,          \* local_search round / simulated_annealing iteration
    swap_tries,         \* local_search: swap attempts made in this round
    current_assignment, \* simulated_annealing: the exploratory state
    room_assignments,   \* simulated_annealing: member lists, by room index
    current_happiness,  \* simulated_annealing: cached score of the current state
    temperature,        \* simulated_annealing, in units of 1/10000
    batch_pos,          \* simulated_annealing: iterations done at this temperature
    no_improve_count,   \* simulated_annealing: stall counter
    reheat_count,       \* simulated_annealing
    population_size,    \* parameter of genetic_algorithm
    generations,        \* parameter of genetic_algorithm
    population,         \* genetic_algorithm: list of chromosomes
    new_population,     \* genetic_algorithm: the next generation being built
    best_individual,    \* genetic_algorithm: <<>> is None
    best_fitness,       \* genetic_algorithm, in units of 1 / FitnessScale
    generation,         \* genetic_algorithm: generations completed
    args,               \* a direct call of a utils.py / greedy.py function
    running,            \* the invocation whose frame the variables above hold
    parked,             \* the frame of a second, suspended invocation
    random_callers,     \* invocations that have drawn from the random module
    result              \* the returned (assignment, room_count)

vars == <<solver, graph, stress_budget, max_local_search_iterations, pc, edges, edge_idx,
          assignment, rooms, room_stress, best_assignment, best_happiness,
          iteration, swap_tries, current_assignment, room_assignments,
          current_happiness, temperature, batch_pos, no_improve_count,
          reheat_count, population_size, generations, population,
          new_population, best_individual, best_fitness, generation, args,
          running, parked, random_callers, result>>

geneticVars == <<population, new_population, best_individual, best_fitness,
                 generation>>

annealVars == <<current_assignment, room_assignments, current_happiness,
                temperature, batch_pos, no_improve_count, reheat_count>>
inputVars == <<solver, graph, stress_budget, max_local_search_iterations,
               population_size, generations, args, running, parked>>
constructionVars == <<edges, edge_idx, rooms, room_stress>>

\* ---------------------------------------------------------------- helpers
\* random.shuffle, random.sample, random.choice, random.randint, random.random and
\* random.choices are methods of the one generator the random module creates
\* when it is imported (greedy.py 5, genetic.py 5, simulated_annealing.py 6);
\* every draw reads and advances that generator's state
Drawn == random_callers \cup {running}

Min(S) == CHOOSE x \in S : \A y \in S : x <= y
Max(S) == CHOOSE x \in S : \A y \in S : x >= y

Nodes(G) == 0 .. (G.n - 1)
Pairs(n) == {e \in (0 .. (n - 1)) \X (0 .. (n - 1)) : e[1] < e[2]}

\* graph.edges[i, j][attr] for an undirected graph
EdgeKey(i, j) == IF i < j THEN <<i, j>> ELSE <<j, i>>
Happiness(G, i, j) == G.happiness[EdgeKey(i, j)]
Stress(G, i, j) == G.stress[EdgeKey(i, j)]

\* sum of the natural numbers w[e] over e in P, counted one unit at a time
SumOver(P, w) == Cardinality(UNION {{<<e, unit>> : unit \in 1 .. w[e]} : e \in P})

\* sum(s) of a list of natural numbers
SeqSum(s) == SumOver(DOMAIN s, s)

Range(f) == {f[x] : x \in DOMAIN f}
SeqToSet(s) == {s[k] : k \in 1 .. Len(s)}

\* ---------------------------------------------------------------- utils.py
\* the room's weight read from the happiness attribute
room_weight_by_happiness(students, G) ==
    SumOver({e \in DOMAIN G.happiness : e[1] \in students /\ e[2] \in students},
            G.happiness)

\* the stress of every pair with a student of the room at either end
stress_touching_room(students, G) ==
    SumOver({e \in DOMAIN G.stress : e[1] \in students \/ e[2] \in students}, G.stress)

\* G.subgraph(students).size("stress"): pairwise stress inside the room
calculate_stress_for_room(students, G) ==
    SumOver({e \in DOMAIN G.stress : e[1] \in students /\ e[2] \in students}, G.stress)

calculate_happiness_for_room(students, G) ==
    SumOver({e \in DOMAIN G.happiness : e[1] \in students /\ e[2] \in students},
            G.happiness)

\* room_to_students of is_valid_solution / calculate_happiness
RoomIds(D) == Range(D)
Members(D, room) == {st \in DOMAIN D : D[st] = room}
NumRooms(D) == Cardinality(RoomIds(D))

\* the check with the budget left undivided: room_stress <= s
is_valid_undivided(D, G, s, num_rooms) ==
    \A room \in RoomIds(D) : calculate_stress_for_room(Members(D, room), G) <= s

\* every room: room_stress <= s / num_rooms   (num_rooms > 0)
is_valid_solution(D, G, s, num_rooms) ==
    \A room \in RoomIds(D) :
        calculate_stress_for_room(Members(D, room), G) * num_rooms <= s

\* the rooms' happiness values summed over the ids 0..k-1 only
happiness_of_leading_ids(D, G) ==
    SumOver(RoomIds(D) \cap (0 .. (NumRooms(D) - 1)),
            [room \in RoomIds(D) |-> calculate_happiness_for_room(Members(D, room), G)])

\* calculate_happiness: the rooms' happiness values summed
calculate_happiness(D, G) ==
    SumOver(RoomIds(D),
            [room \in RoomIds(D) |-> calculate_happiness_for_room(Members(D, room), G)])

\* ---------------------------------------------------------------- greedy.py
\* ratio = happiness / stress if stress > 0 else inf;  RatioGreater: ratio(e1) > ratio(e2)
RatioGreater(G, e1, e2) ==
    IF G.stress[e2] = 0 THEN FALSE
    ELSE IF G.stress[e1] = 0 THEN TRUE
    ELSE G.happiness[e1] * G.stress[e2] > G.happiness[e2] * G.stress[e1]

\* enumeration order of the pair loops: i ascending, then j ascending
EnumBefore(e1, e2) == e1[1] < e2[1] \/ (e1[1] = e2[1] /\ e1[2] < e2[2])

\* edges.sort(key=ratio, reverse=True): descending by ratio, stable
SortedEdges(G) ==
    LET P == Pairs(G.n)
        Rank(e) == Cardinality({d \in P :
                       \/ RatioGreater(G, d, e)
                       \/ (~RatioGreater(G, e, d) /\ EnumBefore(d, e))})
    IN [k \in 1 .. Cardinality(P) |-> CHOOSE e \in P : Rank(e) = k - 1]

\* assignment = {i: i}, rooms = {i: [i]}, room_stress = {i: 0.0}
IdentityAssignment(n) == [i \in 0 .. (n - 1) |-> i]
SingletonRooms(n) == [i \in 0 .. (n - 1) |-> <<i>>]
ZeroStress(n) == [i \in 0 .. (n - 1) |-> 0]

\* the two rooms' stress added up, without the stress between them
SummedRoomStress(G, rms, rstress, room_a, room_b) == rstress[room_a] + rstress[room_b]

\* merge_rooms: room_stress[a] + room_stress[b] + cross stress
CombinedStress(G, rms, rstress, room_a, room_b) ==
    rstress[room_a] + rstress[room_b]
    + SeqSum([x \in 1 .. Len(rms[room_a]) |->
                SeqSum([y \in 1 .. Len(rms[room_b]) |->
                          Stress(G, rms[room_a][x], rms[room_b][y])])])

\* the merge test against the whole budget
WithinWholeBudget(combined_stress, s, num_rooms) == combined_stress <= s

\* potential_budget = s / (num_rooms - 1) if num_rooms - 1 > 0 else inf
WithinPotentialBudget(combined_stress, s, num_rooms) ==
    IF num_rooms - 1 > 0 THEN combined_stress * (num_rooms - 1) <= s ELSE TRUE

\* first-appearance order of the room ids when the students are walked 0..N-1
\* (insertion order of the dict built by `rooms.setdefault(room, []).append`)
FirstStudent(D, room) == Min(Members(D, room))
RoomOrder(D) ==
    LET ids == RoomIds(D)
        Pos(r) == Cardinality({q \in ids : FirstStudent(D, q) < FirstStudent(D, r)})
    IN [k \in 1 .. Cardinality(ids) |-> CHOOSE r \in ids : Pos(r) = k - 1]

\* the assignment with its room ids left as they are
KeepRoomIds(D) == D

\* renumber_rooms (greedy.py): sorted room ids -> 0..k-1
renumber_rooms(D) ==
    LET ids == RoomIds(D)
    IN [st \in DOMAIN D |-> Cardinality({q \in ids : q < D[st]})]

\* ---- greedy_local_search: greedy_construction ----
NoResult == [assignment |-> <<>>, num_rooms |-> 0]

\* greedy.py 16-42: rank the pairs, start with every student alone
GreedyEnter ==
    /\ pc = "call"
    /\ solver = "greedy"
    /\ edges' = SortedEdges(graph)
    /\ edge_idx' = 1
    /\ assignment' = IdentityAssignment(graph.n)
    /\ rooms' = SingletonRooms(graph.n)
    /\ room_stress' = ZeroStress(graph.n)
    /\ pc' = "greedy_construction"
    /\ UNCHANGED <<inputVars, best_assignment, best_happiness, iteration,
                   swap_tries, annealVars, geneticVars, result>>
    /\ UNCHANGED random_callers

\* room_b's entry deleted, room_a's stress left as it was
KeptRoomStress(rstress, room_a, room_b, combined_stress) ==
    [r \in (DOMAIN rstress) \ {room_b} |-> rstress[r]]

\* the merge of merge_rooms: room_b's students join room_a
MergedAssignment(D, rms, room_a, room_b) ==
    [st \in DOMAIN D |-> IF st \in SeqToSet(rms[room_b]) THEN room_a ELSE D[st]]
MergedRooms(rms, room_a, room_b) ==
    [r \in (DOMAIN rms) \ {room_b} |->
        IF r = room_a THEN rms[room_a] \o rms[room_b] ELSE rms[r]]
MergedRoomStress(rstress, room_a, room_b, combined_stress) ==
    [r \in (DOMAIN rstress) \ {room_b} |->
        IF r = room_a THEN combined_stress ELSE rstress[r]]

\* greedy.py 69-82: one pair of the ranked list
GreedyConstructionStep ==
    /\ pc = "greedy_construction"
    /\ edge_idx <= Len(edges)
    /\ Cardinality(DOMAIN rooms) > 1
    /\ LET student_i == edges[edge_idx][1]
           student_j == edges[edge_idx][2]
           room_i == assignment[student_i]
           room_j == assignment[student_j]
           num_rooms == Cardinality(DOMAIN rooms)
           combined_stress == CombinedStress(graph, rooms, room_stress, room_i, room_j)
       IN IF room_i # room_j
             /\ WithinPotentialBudget(combined_stress, stress_budget, num_rooms)
          THEN /\ assignment' = MergedAssignment(assignment, rooms, room_i, room_j)
               /\ rooms' = MergedRooms(rooms, room_i, room_j)
               /\ room_stress' = MergedRoomStress(room_stress, room_i, room_j,
                                                  combined_stress)
          ELSE UNCHANGED <<assignment, rooms, room_stress>>
    /\ edge_idx' = edge_idx + 1
    /\ UNCHANGED <<inputVars, pc, edges, best_assignment, best_happiness,
                   iteration, swap_tries, annealVars, geneticVars, result>>
    /\ UNCHANGED random_callers

\* greedy.py 84-86 then 98-100: renumber, return, local_search takes the result as
\* its first best
GreedyConstructionReturn ==
    /\ pc = "greedy_construction"
    /\ (edge_idx > Len(edges) \/ Cardinality(DOMAIN rooms) <= 1)
    /\ \E renumbered \in {renumber_rooms(assignment)} :
          /\ assignment' = renumbered
          /\ best_assignment' = renumbered
          /\ best_happiness' = calculate_happiness(renumbered, graph)
    /\ iteration' = 0
    /\ swap_tries' = 0
    /\ edges' = <<>>
    /\ edge_idx' = 0
    /\ rooms' = <<>>
    /\ room_stress' = <<>>
    /\ pc' = "local_search"
    /\ UNCHANGED <<inputVars, annealVars, geneticVars, result>>
    /\ UNCHANGED random_callers

\* ---- greedy_local_search: local_search ----
\* random.shuffle(students): every order of the students
Shuffles(S) ==
    {p \in [1 .. Cardinality(S) -> S] :
        \A a, b \in 1 .. Cardinality(S) : a # b => p[a] # p[b]}

\* the comparison without strictness
ImprovesOrEqual(new_happiness, best) == new_happiness >= best

\* `if new_happiness > best_happiness`
Improves(new_happiness, best) == new_happiness > best

\* the candidate is valid for the round's room count, whatever its happiness
CandidateValid(newD, G, s, num_rooms, best) == is_valid_solution(newD, G, s, num_rooms)

\* greedy.py 131-133 / 160-162: the candidate is valid for the round's room count
\* and strictly better than the best
CandidateAccepted(newD, G, s, num_rooms, best) ==
    /\ is_valid_solution(newD, G, s, num_rooms)
    /\ Improves(calculate_happiness(newD, G), best)

\* greedy.py 124-138: the first target room (in room_ids order, which is the order
\* of the rooms' first students) that gives an accepted candidate; -1 when there
\* is none
FirstTarget(D, G, s, best, student) ==
    LET ok == {room \in RoomIds(D) :
                  /\ room # D[student]
                  /\ CandidateAccepted([D EXCEPT ![student] = room], G, s,
                                       NumRooms(D), best)}
    IN IF ok = {} THEN 0 - 1
       ELSE CHOOSE room \in ok :
                \A other \in ok : FirstStudent(D, room) <= FirstStudent(D, other)

\* the first student of the shuffled order with an accepted move, alone in its
\* room or not
FirstMoveOfAnyStudent(D, G, s, best, order) ==
    LET moves == {<<k, FirstTarget(D, G, s, best, order[k])>> : k \in 1 .. Len(order)}
        can == {m \in moves : m[2] # 0 - 1}
    IN IF can = {} THEN <<>>
       ELSE LET first == CHOOSE m \in can : \A other \in can : m[1] <= other[1]
            IN <<order[first[1]], first[2]>>

\* greedy.py 116-141: the first student of the shuffled order that is not alone
\* in its room and has an accepted move, with its target; <<>> when no student
\* has one
FirstMove(D, G, s, best, order) ==
    LET moves == {<<k, IF Cardinality(Members(D, D[order[k]])) = 1 THEN 0 - 1
                       ELSE FirstTarget(D, G, s, best, order[k])>> :
                     k \in 1 .. Len(order)}
        can == {m \in moves : m[2] # 0 - 1}
    IN IF can = {} THEN <<>>
       ELSE LET first == CHOOSE m \in can : \A other \in can : m[1] <= other[1]
            IN <<order[first[1]], first[2]>>

LocalSearchReturn ==
    /\ result' = [assignment |-> best_assignment,
                  num_rooms |-> NumRooms(best_assignment)]
    /\ pc' = "done"
    /\ UNCHANGED <<inputVars, constructionVars, assignment, best_assignment,
                   best_happiness, iteration, swap_tries, annealVars, geneticVars>>

\* greedy.py 102: the round cap is reached
LocalSearchCap ==
    /\ pc = "local_search"
    /\ iteration >= max_local_search_iterations
    /\ LocalSearchReturn
    /\ UNCHANGED random_callers

\* greedy.py 102-147: start of a round and its move phase
LocalSearchMoves ==
    /\ pc = "local_search"
    /\ iteration < max_local_search_iterations
    /\ \E order \in Shuffles(DOMAIN assignment) :
          \E mv \in {FirstMove(assignment, graph, stress_budget, best_happiness,
                               order)} :
             IF mv # <<>>
             THEN /\ assignment' = [assignment EXCEPT ![mv[1]] = mv[2]]
                  /\ best_assignment' = [assignment EXCEPT ![mv[1]] = mv[2]]
                  /\ best_happiness' =
                         calculate_happiness([assignment EXCEPT ![mv[1]] = mv[2]], graph)
                  /\ iteration' = iteration + 1
                  /\ pc' = "local_search"
             ELSE /\ pc' = IF NumRooms(assignment) >= 2 THEN "swap" ELSE "merge"
                  /\ UNCHANGED <<assignment, best_assignment, best_happiness,
                                 iteration>>
    /\ swap_tries' = 0
    /\ UNCHANGED <<inputVars, constructionVars, annealVars, geneticVars, result>>
    /\ random_callers' = Drawn

\* range(min(100, num_rooms * num_rooms))
SwapLimit(num_rooms) ==
    IF num_rooms * num_rooms < 100 THEN num_rooms * num_rooms ELSE 100

\* greedy.py 148-167: one sampled swap
LocalSearchSwap ==
    /\ pc = "swap"
    /\ \E room_a, room_b \in RoomIds(assignment) :
          /\ room_a # room_b
          /\ \E student_a \in Members(assignment, room_a),
                student_b \in Members(assignment, room_b) :
                LET newD == [assignment EXCEPT ![student_a] = room_b,
                                               ![student_b] = room_a]
                IN IF CandidateAccepted(newD, graph, stress_budget,
                                        NumRooms(assignment), best_happiness)
                   THEN /\ assignment' = newD
                        /\ best_assignment' = newD
                        /\ best_happiness' = calculate_happiness(newD, graph)
                        /\ iteration' = iteration + 1
                        /\ swap_tries' = 0
                        /\ pc' = "local_search"
                   ELSE /\ swap_tries' =
                              IF swap_tries + 1 >= SwapLimit(NumRooms(assignment))
                              THEN 0 ELSE swap_tries + 1
                        /\ pc' = IF swap_tries + 1 >= SwapLimit(NumRooms(assignment))
                                 THEN "merge" ELSE "swap"
                        /\ UNCHANGED <<assignment, best_assignment, best_happiness,
                                       iteration>>
    /\ UNCHANGED <<inputVars, constructionVars, annealVars, geneticVars, result>>
    /\ random_callers' = Drawn

\* try_merge_rooms 190-192: room_b's students go to room_a
MergeCandidate(D, room_a, room_b) ==
    [st \in DOMAIN D |-> IF D[st] = room_b THEN room_a ELSE D[st]]

\* the merge test with a strict comparison of the happiness
MergeAcceptedIfBetter(newD, G, s, at_least) ==
    /\ is_valid_solution(newD, G, s, NumRooms(newD))
    /\ calculate_happiness(newD, G) > at_least

\* try_merge_rooms 194-198
MergeAccepted(newD, G, s, at_least) ==
    /\ is_valid_solution(newD, G, s, NumRooms(newD))
    /\ calculate_happiness(newD, G) >= at_least

\* try_merge_rooms: the first accepted pair (room_a before room_b in room_ids,
\* the order of the rooms' first students), renumbered; <<>> for None
try_merge_rooms(G, s, D, at_least) ==
    LET ok == {ab \in RoomIds(D) \X RoomIds(D) :
                  /\ FirstStudent(D, ab[1]) < FirstStudent(D, ab[2])
                  /\ MergeAccepted(MergeCandidate(D, ab[1], ab[2]), G, s, at_least)}
    IN IF ok = {} THEN <<>>
       ELSE LET first == CHOOSE ab \in ok : \A other \in ok :
                             \/ FirstStudent(D, ab[1]) < FirstStudent(D, other[1])
                             \/ /\ ab[1] = other[1]
                                /\ FirstStudent(D, ab[2]) <= FirstStudent(D, other[2])
            IN renumber_rooms(MergeCandidate(D, first[1], first[2]))

\* greedy.py 170-180: merge phase of a round, or the end of the search
LocalSearchMerge ==
    /\ pc = "merge"
    /\ NumRooms(assignment) > 1
    /\ \E merged \in {try_merge_rooms(graph, stress_budget, assignment,
                                       best_happiness)} :
          /\ merged # <<>>
          /\ assignment' = merged
          /\ best_assignment' = merged
          /\ best_happiness' = calculate_happiness(merged, graph)
    /\ iteration' = iteration + 1
    /\ pc' = "local_search"
    /\ UNCHANGED <<inputVars, constructionVars, swap_tries, annealVars, geneticVars, result>>
    /\ UNCHANGED random_callers

\* greedy.py 177-180: no merge qualifies, or one room only
LocalSearchStop ==
    /\ pc = "merge"
    /\ \/ NumRooms(assignment) <= 1
       \/ try_merge_rooms(graph, stress_budget, assignment, best_happiness) = <<>>
    /\ LocalSearchReturn
    /\ UNCHANGED random_callers

\* greedy.py 96-100: local_search called again, on the assignment and the room
\* count it returned
LocalSearchAgain ==
    /\ pc = "done"
    /\ solver = "greedy"
    /\ assignment' = result.assignment
    /\ best_assignment' = result.assignment
    /\ best_happiness' = calculate_happiness(result.assignment, graph)
    /\ iteration' = 0
    /\ swap_tries' = 0
    /\ pc' = "local_search"
    /\ UNCHANGED <<inputVars, constructionVars, annealVars, geneticVars, result>>
    /\ UNCHANGED random_callers

\* ---------------------------------------------------------------- simulated_annealing.py
\* Temperatures are fixed-point numbers in units of 1/10000 (50.0 is 500000);
\* a product with the cooling rate is rounded down to that unit.
initial_temp == 500000
min_temp == 5000
max_reheats == 3
invalid_penalty == 1000

\* The cooling schedule of the code (cooling_rate = 0.97, reheat_threshold = 150,
\* max_iterations = 500 * num_students) makes a run several hundred iterations
\* long.  The model runs the same loop on a shortened schedule, so that the
\* temperature floor, the iteration cap and the reheats are all reached within a
\* few batches: these three are bounds of the model, not the code's values.
ScaledCoolingPercent == 20
ScaledReheatThreshold == 2
ScaledIterationsFactor == 4

iterations_per_temp(n) == IF n \div 3 > 3 THEN n \div 3 ELSE 3
sa_max_iterations(n) == ScaledIterationsFactor * n

SortedSeq(S) ==
    [k \in 1 .. Cardinality(S) |-> CHOOSE x \in S : Cardinality({y \in S : y < x}) = k - 1]

\* get_room_lists: member lists in ascending room id order
get_room_lists(D) ==
    LET ids == SortedSeq(RoomIds(D))
    IN [k \in 1 .. Len(ids) |-> SortedSeq(Members(D, ids[k]))]

\* renumber_rooms (simulated_annealing.py): ids 0..k-1 in order of first appearance
sa_renumber_rooms(D) ==
    [st \in DOMAIN D |->
        Cardinality({q \in RoomIds(D) : FirstStudent(D, q) < FirstStudent(D, D[st])})]

\* evaluate_solution: (happiness or the penalty score, is_valid)
evaluate_solution(D, G, s) ==
    LET num_rooms == Len(get_room_lists(D))
        is_valid == is_valid_solution(D, G, s, num_rooms)
    IN [happiness |-> IF is_valid THEN calculate_happiness(D, G) ELSE 0 - invalid_penalty,
        is_valid |-> is_valid]

\* ---- simulated_annealing: greedy_init ----
\* simulated_annealing.py 179-192
AnnealEnter ==
    /\ pc = "call"
    /\ solver = "sim_annealing"
    /\ edges' = SortedEdges(graph)
    /\ edge_idx' = 1
    /\ assignment' = IdentityAssignment(graph.n)
    /\ rooms' = SingletonRooms(graph.n)
    /\ room_stress' = ZeroStress(graph.n)
    /\ pc' = "greedy_init"
    /\ UNCHANGED <<inputVars, best_assignment, best_happiness, iteration,
                   swap_tries, annealVars, geneticVars, result>>
    /\ UNCHANGED random_callers

\* simulated_annealing.py 194-219: one pair of the ranked list
GreedyInitStep ==
    /\ pc = "greedy_init"
    /\ edge_idx <= Len(edges)
    /\ Cardinality(DOMAIN rooms) > 1
    /\ LET student_i == edges[edge_idx][1]
           student_j == edges[edge_idx][2]
           room_i == assignment[student_i]
           room_j == assignment[student_j]
           merged_stress == CombinedStress(graph, rooms, room_stress, room_i, room_j)
       IN IF room_i # room_j
             /\ WithinPotentialBudget(merged_stress, stress_budget,
                                      Cardinality(DOMAIN rooms))
          THEN /\ assignment' = MergedAssignment(assignment, rooms, room_i, room_j)
               /\ rooms' = MergedRooms(rooms, room_i, room_j)
               /\ room_stress' = MergedRoomStress(room_stress, room_i, room_j,
                                                  merged_stress)
          ELSE UNCHANGED <<assignment, rooms, room_stress>>
    /\ edge_idx' = edge_idx + 1
    /\ UNCHANGED <<inputVars, pc, edges, best_assignment, best_happiness,
                   iteration, swap_tries, annealVars, geneticVars, result>>
    /\ UNCHANGED random_callers

\* simulated_annealing.py 221-231 then 48-69: renumber by first appearance, return;
\* the result is the first current and best state
GreedyInitReturn ==
    /\ pc = "greedy_init"
    /\ (edge_idx > Len(edges) \/ Cardinality(DOMAIN rooms) <= 1)
    /\ LET init == sa_renumber_rooms(assignment)
       IN /\ current_assignment' = init
          /\ room_assignments' = get_room_lists(init)
          /\ best_assignment' = init
          /\ best_happiness' = evaluate_solution(init, graph, stress_budget).happiness
          /\ current_happiness' = evaluate_solution(init, graph, stress_budget).happiness
    /\ temperature' = initial_temp
    /\ iteration' = 0
    /\ batch_pos' = 0
    /\ no_improve_count' = 0
    /\ reheat_count' = 0
    /\ assignment' = <<>>
    /\ edges' = <<>>
    /\ edge_idx' = 0
    /\ rooms' = <<>>
    /\ room_stress' = <<>>
    /\ pc' = "anneal"
    /\ UNCHANGED <<inputVars, swap_tries, geneticVars, result>>
    /\ UNCHANGED random_callers

\* ---- simulated_annealing: the cooling loop ----
\* the while condition without the iteration cap
LoopWithoutIterationCap ==
    /\ temperature > min_temp
    /\ reheat_count < max_reheats

\* simulated_annealing.py 71: the while condition
LoopCondition ==
    /\ temperature > min_temp
    /\ iteration < sa_max_iterations(graph.n)
    /\ reheat_count < max_reheats

\* an iteration may start: inside a batch, or at a batch boundary that passes the
\* while condition
IterationStarts ==
    /\ pc = "anneal"
    /\ batch_pos < iterations_per_temp(graph.n)
    /\ (batch_pos > 0 \/ LoopCondition)

\* math.exp(happiness_delta / temperature) is 0.0 (below the smallest double) once
\* the quotient is under about -745
ExpUnderflows(happiness_delta, temp) ==
    (0 - happiness_delta) * 10000 > 745 * temp

\* simulated_annealing.py 142-150: the values accept_move can take
AcceptChoices(happiness_delta, temp) ==
    IF happiness_delta > 0 THEN {TRUE}
    ELSE IF temp > 0
         THEN IF happiness_delta = 0 THEN {TRUE}
              ELSE IF ExpUnderflows(happiness_delta, temp) THEN {FALSE}
              ELSE {TRUE, FALSE}
         ELSE {FALSE}

\* every valid candidate becomes the best
AnyValidBecomesBest(new_valid, new_happiness, best) == new_valid

\* simulated_annealing.py 157: the candidate becomes the best
BecomesBest(new_valid, new_happiness, best) == new_valid /\ new_happiness > best

\* an iteration without a candidate that counts as a stalled one
AnnealSkipCounted ==
    /\ iteration' = iteration + 1
    /\ batch_pos' = batch_pos + 1
    /\ no_improve_count' = no_improve_count + 1
    /\ UNCHANGED <<inputVars, constructionVars, assignment, swap_tries,
                   best_assignment, best_happiness, current_assignment,
                   room_assignments, current_happiness, temperature,
                   reheat_count, pc, geneticVars, result>>

\* simulated_annealing.py 134-135: no candidate was built
AnnealSkip ==
    /\ iteration' = iteration + 1
    /\ batch_pos' = batch_pos + 1
    /\ UNCHANGED <<inputVars, constructionVars, assignment, swap_tries,
                   best_assignment, best_happiness, current_assignment,
                   room_assignments, current_happiness, temperature,
                   no_improve_count, reheat_count, pc, geneticVars, result>>

\* simulated_annealing.py 137-164: score the candidate, accept or reject it
AnnealCandidate(new_assignment, new_room_lists) ==
    LET ev == evaluate_solution(new_assignment, graph, stress_budget)
        happiness_delta == ev.happiness - current_happiness
    IN /\ \E accept_move \in AcceptChoices(happiness_delta, temperature) :
             IF accept_move
             THEN /\ current_assignment' = new_assignment
                  /\ room_assignments' = new_room_lists
                  /\ current_happiness' = ev.happiness
                  /\ IF BecomesBest(ev.is_valid, ev.happiness, best_happiness)
                     THEN /\ best_happiness' = ev.happiness
                          /\ best_assignment' = new_assignment
                          /\ no_improve_count' = 0
                     ELSE /\ no_improve_count' = no_improve_count + 1
                          /\ UNCHANGED <<best_happiness, best_assignment>>
             ELSE /\ no_improve_count' = no_improve_count + 1
                  /\ UNCHANGED <<current_assignment, room_assignments,
                                 current_happiness, best_happiness, best_assignment>>
       /\ iteration' = iteration + 1
       /\ batch_pos' = batch_pos + 1
       /\ UNCHANGED <<inputVars, constructionVars, assignment, swap_tries,
                      temperature, reheat_count, pc, geneticVars, result>>

\* room indices are the code's 0-based ones; room_assignments[idx + 1] is the list
RoomList(idx) == room_assignments[idx + 1]
RoomIndices == 0 .. (Len(room_assignments) - 1)

\* simulated_annealing.py 86-95: move type 'transfer'
AnnealTransfer ==
    /\ IterationStarts
    /\ IF Len(room_assignments) > 1
       THEN \E from_room_idx \in RoomIndices :
               IF Len(RoomList(from_room_idx)) > 1
               THEN \E student \in SeqToSet(RoomList(from_room_idx)),
                       to_room_idx \in RoomIndices :
                       IF to_room_idx # from_room_idx
                       THEN LET new_assignment ==
                                    [current_assignment EXCEPT ![student] = to_room_idx]
                            IN AnnealCandidate(new_assignment,
                                               get_room_lists(new_assignment))
                       ELSE AnnealSkip
               ELSE AnnealSkip
       ELSE AnnealSkip
    /\ random_callers' = Drawn

\* simulated_annealing.py 98-107: move type 'swap'
AnnealSwap ==
    /\ IterationStarts
    /\ IF Len(room_assignments) >= 2
       THEN \E room_a_idx, room_b_idx \in RoomIndices :
               /\ room_a_idx # room_b_idx
               /\ IF RoomList(room_a_idx) # <<>> /\ RoomList(room_b_idx) # <<>>
                  THEN \E student_a \in SeqToSet(RoomList(room_a_idx)),
                          student_b \in SeqToSet(RoomList(room_b_idx)) :
                          LET new_assignment ==
                                  [current_assignment EXCEPT ![student_a] = room_b_idx,
                                                             ![student_b] = room_a_idx]
                          IN AnnealCandidate(new_assignment,
                                             get_room_lists(new_assignment))
                  ELSE AnnealSkip
       ELSE AnnealSkip
    /\ random_callers' = Drawn

\* simulated_annealing.py 110-117: move type 'merge'
AnnealMerge ==
    /\ IterationStarts
    /\ IF Len(room_assignments) >= 2
       THEN \E room_a_idx, room_b_idx \in RoomIndices :
               /\ room_a_idx # room_b_idx
               /\ LET moved == SeqToSet(RoomList(room_b_idx))
                      new_assignment ==
                          sa_renumber_rooms(
                              [st \in DOMAIN current_assignment |->
                                  IF st \in moved THEN room_a_idx
                                  ELSE current_assignment[st]])
                  IN AnnealCandidate(new_assignment, get_room_lists(new_assignment))
       ELSE AnnealSkip
    /\ random_callers' = Drawn

\* simulated_annealing.py 120-132: move type 'split'
AnnealSplit ==
    /\ IterationStarts
    /\ IF Len(room_assignments) < graph.n
       THEN \E room_idx \in RoomIndices :
               IF Len(RoomList(room_idx)) >= 2
               THEN \E students_to_move \in SUBSET SeqToSet(RoomList(room_idx)) :
                       /\ Cardinality(students_to_move) >= 1
                       /\ Cardinality(students_to_move) <= Len(RoomList(room_idx)) - 1
                       /\ LET new_room_id == Max(Range(current_assignment)) + 1
                              new_assignment ==
                                  sa_renumber_rooms(
                                      [st \in DOMAIN current_assignment |->
                                          IF st \in students_to_move THEN new_room_id
                                          ELSE current_assignment[st]])
                          IN AnnealCandidate(new_assignment,
                                             get_room_lists(new_assignment))
               ELSE AnnealSkip
       ELSE AnnealSkip
    /\ random_callers' = Drawn

\* simulated_annealing.py 166-172: end of a batch: cool, then reheat when stalled
CooledTemperature(temp) == (temp * ScaledCoolingPercent) \div 100
ReheatedTemperature(cooled) ==
    IF cooled * 2 < initial_temp \div 2 THEN cooled * 2 ELSE initial_temp \div 2
\* the stall test met already at the threshold
StalledAtThreshold(count) == count >= ScaledReheatThreshold
Stalled(count) == count > ScaledReheatThreshold

AnnealCool ==
    /\ pc = "anneal"
    /\ batch_pos = iterations_per_temp(graph.n)
    /\ IF Stalled(no_improve_count)
       THEN /\ temperature' = ReheatedTemperature(CooledTemperature(temperature))
            /\ no_improve_count' = 0
            /\ reheat_count' = reheat_count + 1
       ELSE /\ temperature' = CooledTemperature(temperature)
            /\ UNCHANGED <<no_improve_count, reheat_count>>
    /\ batch_pos' = 0
    /\ UNCHANGED <<inputVars, constructionVars, assignment, swap_tries, iteration,
                   best_assignment, best_happiness, current_assignment,
                   room_assignments, current_happiness, pc, geneticVars, result>>
    /\ UNCHANGED random_callers

\* simulated_annealing.py 71, 174: the while condition fails, return the best
AnnealReturn ==
    /\ pc = "anneal"
    /\ batch_pos = 0
    /\ ~LoopCondition
    /\ result' = [assignment |-> best_assignment,
                  num_rooms |-> NumRooms(best_assignment)]
    /\ pc' = "done"
    /\ UNCHANGED <<inputVars, constructionVars, assignment, swap_tries, iteration,
                   best_assignment, best_happiness, annealVars, geneticVars>>
    /\ UNCHANGED random_callers

\* ---------------------------------------------------------------- genetic.py
\* A chromosome is the sequence of room ids of students 0..N-1 (position i + 1
\* holds student i).  Fitness is a rational with a denominator that divides
\* num_students!, kept as an integer in units of 1 / FitnessScale.
repair_attempts == 10

chromosome_to_dict(chromosome) ==
    [i \in 0 .. (Len(chromosome) - 1) |-> chromosome[i + 1]]

\* a room count taken as the largest id plus one
CountRoomsByMaxId(chromosome) ==
    Max({chromosome[k] : k \in 1 .. Len(chromosome)}) + 1

\* len(set(chromosome))
CountRooms(chromosome) == Cardinality({chromosome[k] : k \in 1 .. Len(chromosome)})

RECURSIVE Factorial(_)
Factorial(n) == IF n <= 1 THEN 1 ELSE n * Factorial(n - 1)
FitnessScale(G) == Factorial(G.n)

\* calculate_stress_violation: summed excess over the rooms above budget / num_rooms
calculate_stress_violation(chromosome, G, s) ==
    LET D == chromosome_to_dict(chromosome)
        num_rooms == CountRooms(chromosome)
        excess == [room \in RoomIds(D) |->
                     LET room_stress_ == calculate_stress_for_room(Members(D, room), G)
                     IN IF room_stress_ * num_rooms > s
                        THEN room_stress_ * FitnessScale(G)
                             - (s * FitnessScale(G)) \div num_rooms
                        ELSE 0]
    IN SumOver(RoomIds(D), excess)

\* a fitness that is the happiness whether the chromosome is valid or not
fitness_by_happiness(chromosome, G, s) ==
    calculate_happiness(chromosome_to_dict(chromosome), G) * FitnessScale(G)

\* evaluate_fitness: happiness when valid, minus the violation when not
evaluate_fitness(chromosome, G, s) ==
    LET D == chromosome_to_dict(chromosome)
    IN IF ~is_valid_solution(D, G, s, CountRooms(chromosome))
       THEN 0 - calculate_stress_violation(chromosome, G, s)
       ELSE calculate_happiness(D, G) * FitnessScale(G)

fitness_scores(pop, G, s) == [i \in 1 .. Len(pop) |-> evaluate_fitness(pop[i], G, s)]

\* the chromosome with its room ids left as they are
KeepChromosomeIds(chromosome) == chromosome

\* first-appearance renumbering of a chromosome (genetic.py 154-160, 258-265)
RenumberChromosome(chromosome) ==
    LET D == chromosome_to_dict(chromosome)
    IN [i \in 1 .. Len(chromosome) |->
          Cardinality({q \in RoomIds(D) :
                          FirstStudent(D, q) < FirstStudent(D, chromosome[i])})]

\* create_greedy_chromosome 117-143: the feasible pair of active rooms with the
\* largest happiness gain (the first such pair in loop order); <<>> for None
BestMerge(chromosome, active_rooms, G, s) ==
    LET D == chromosome_to_dict(chromosome)
        potential_rooms == Cardinality(active_rooms) - 1
        Gain(ab) == SumOver({e \in DOMAIN G.happiness :
                               \/ (D[e[1]] = ab[1] /\ D[e[2]] = ab[2])
                               \/ (D[e[1]] = ab[2] /\ D[e[2]] = ab[1])}, G.happiness)
        feasible == {ab \in active_rooms \X active_rooms :
                       /\ ab[1] < ab[2]
                       /\ potential_rooms > 0
                       /\ calculate_stress_for_room(
                              Members(D, ab[1]) \cup Members(D, ab[2]), G)
                          * potential_rooms <= s}
        best == {ab \in feasible : \A cd \in feasible : Gain(ab) >= Gain(cd)}
    IN IF feasible = {} THEN <<>>
       ELSE CHOOSE ab \in best : \A cd \in best : EnumBefore(ab, cd) \/ ab = cd

\* create_greedy_chromosome 145-149: a merge was found, and applying it reads the
\* name `n`, which is bound nowhere: the call raises NameError
GreedyChromosomeRaises(G, s, num_students) ==
    /\ num_students - 1 >= 1
    /\ BestMerge([i \in 1 .. num_students |-> i - 1], 0 .. (num_students - 1), G, s)
       # <<>>

\* create_greedy_chromosome when it returns: no merge was found in the first
\* round, the loop breaks and the identity chromosome is renumbered
create_greedy_chromosome(G, s, num_students) ==
    RenumberChromosome([i \in 1 .. num_students |-> i - 1])

\* initialize_population 92-93: num_rooms = randint(1, N), then every position a
\* randint(0, num_rooms - 1)
RandomChromosomes(num_students) ==
    UNION {[1 .. num_students -> 0 .. (num_rooms - 1)] : num_rooms \in 1 .. num_students}

\* tournament_select: a sample of min(tournament_size, len) distinct indices, and
\* an index of the sample with the largest score
TournamentWinners(scores) ==
    LET size == IF tournament_size < Len(scores) THEN tournament_size ELSE Len(scores)
    IN {i \in 1 .. Len(scores) :
          \E sample \in SUBSET (1 .. Len(scores)) :
             /\ Cardinality(sample) = size
             /\ i \in sample
             /\ \A j \in sample : scores[i] >= scores[j]}

\* crossover: position by position, one child takes parent1's id and the other
\* parent2's
Crossovers(parent1, parent2) ==
    {<<[i \in 1 .. Len(parent1) |-> IF mask[i] THEN parent1[i] ELSE parent2[i]],
       [i \in 1 .. Len(parent1) |-> IF mask[i] THEN parent2[i] ELSE parent1[i]]>> :
        mask \in [1 .. Len(parent1) -> BOOLEAN]}

\* mutate, per mutation type: the chromosomes it can return
MutateSwap(chromosome) ==
    IF Len(chromosome) >= 2
    THEN {[chromosome EXCEPT ![i] = chromosome[j], ![j] = chromosome[i]] :
             <<i, j>> \in {ij \in (1 .. Len(chromosome)) \X (1 .. Len(chromosome)) :
                              ij[1] # ij[2]}}
    ELSE {chromosome}

MutateMove(chromosome) ==
    LET num_rooms == Cardinality(SeqToSet(chromosome))
    IN {[chromosome EXCEPT ![i] = room] :
           <<i, room>> \in (1 .. Len(chromosome)) \X (0 .. (num_rooms - 1))}

MutateSplit(chromosome) ==
    LET num_rooms == Cardinality(SeqToSet(chromosome))
        InRoom(room) == {i \in 1 .. Len(chromosome) : chromosome[i] = room}
        new_room == Max(SeqToSet(chromosome)) + 1
    IN IF num_rooms > 0
       THEN UNION {IF Cardinality(InRoom(room_to_split)) > 1
                   THEN {[i \in 1 .. Len(chromosome) |->
                             IF i \in students_to_move THEN new_room ELSE chromosome[i]] :
                           students_to_move \in
                               {m \in SUBSET InRoom(room_to_split) :
                                   /\ Cardinality(m) >= 1
                                   /\ Cardinality(m) <= Cardinality(InRoom(room_to_split)) - 1}}
                   ELSE {chromosome} :
                   room_to_split \in 0 .. (num_rooms - 1)}
       ELSE {chromosome}

MutateMerge(chromosome) ==
    LET ids == SeqToSet(chromosome)
    IN IF Cardinality(ids) > 1
       THEN {[i \in 1 .. Len(chromosome) |->
                 IF chromosome[i] = ab[2] THEN ab[1] ELSE chromosome[i]] :
               ab \in {x \in ids \X ids : x[1] # x[2]}}
       ELSE {chromosome}

Mutations(chromosome) ==
    MutateSwap(chromosome) \cup MutateMove(chromosome)
    \cup MutateSplit(chromosome) \cup MutateMerge(chromosome)

\* `if random.random() < mutation_rate: child = mutate(child)`
MaybeMutated(chromosome) == {chromosome} \cup Mutations(chromosome)

\* repair_chromosome 275-293: the first room (in first-appearance order) that is
\* over budget and has more than one student loses its highest-stress student to
\* a new room; the chromosome is returned unchanged when there is no such room
RepairAttempt(chromosome, G, s) ==
    LET D == chromosome_to_dict(chromosome)
        order == RoomOrder(D)
        num_rooms == Len(order)
        over == {k \in 1 .. num_rooms :
                    /\ calculate_stress_for_room(Members(D, order[k]), G) * num_rooms > s
                    /\ Cardinality(Members(D, order[k])) > 1}
        students == Members(D, order[Min(over)])
        StressTo(student) ==
            SumOver({e \in DOMAIN G.stress :
                        /\ e[1] \in students /\ e[2] \in students
                        /\ (e[1] = student \/ e[2] = student)}, G.stress)
        max_stress_student ==
            Min({st \in students : \A other \in students : StressTo(st) >= StressTo(other)})
    IN IF over = {} THEN chromosome
       ELSE [chromosome EXCEPT ![max_stress_student + 1] = Max(SeqToSet(chromosome)) + 1]

RECURSIVE RepairLoop(_, _, _, _)
RepairLoop(chromosome, G, s, attempts_left) ==
    IF attempts_left = 0 \/ RepairAttempt(chromosome, G, s) = chromosome
    THEN chromosome
    ELSE RepairLoop(RepairAttempt(chromosome, G, s), G, s, attempts_left - 1)

\* repair_chromosome
repair_chromosome(chromosome, G, s) ==
    LET renumbered == RenumberChromosome(chromosome)
        D == chromosome_to_dict(renumbered)
    IN IF is_valid_solution(D, G, s, CountRooms(renumbered)) THEN renumbered
       ELSE RepairLoop(renumbered, G, s, repair_attempts)

\* a scan that looks at the first individual only
TrackFirstIndividual(pop, scores, individual, fitness) ==
    IF scores[1] > fitness THEN <<pop[1], scores[1]>> ELSE <<individual, fitness>>

\* genetic.py 29-32 / 63-66: the scan that keeps the first individual whose
\* fitness exceeds the best so far; <<individual, fitness>>
TrackBest(pop, scores, individual, fitness) ==
    LET top == Max({scores[i] : i \in 1 .. Len(pop)})
        first == Min({i \in 1 .. Len(pop) : scores[i] = top})
    IN IF top > fitness THEN <<pop[first], top>> ELSE <<individual, fitness>>

\* the first elite_count individuals in population order, whatever their fitness
FirstAsElites(pop, scores) ==
    [k \in 1 .. (IF elite_count < Len(pop) THEN elite_count ELSE Len(pop)) |-> pop[k]]

\* genetic.py 37-39: the elite_count best, by descending fitness, ties in
\* population order
Elites(pop, scores) ==
    LET Rank(i) == Cardinality({j \in 1 .. Len(pop) :
                       \/ scores[j] > scores[i]
                       \/ (scores[j] = scores[i] /\ j < i)})
        count == IF elite_count < Len(pop) THEN elite_count ELSE Len(pop)
    IN [k \in 1 .. count |-> pop[CHOOSE i \in 1 .. Len(pop) : Rank(i) = k - 1]]

\* ---- genetic_algorithm ----
\* genetic.py 17-23, initialize_population
GeneticEnter ==
    /\ pc = "call"
    /\ solver = "genetic"
    /\ LET num_students == graph.n
           greedy_count == population_size \div 4
           identity == [i \in 1 .. num_students |-> i - 1]
           greedy == [k \in 1 .. greedy_count |->
                        create_greedy_chromosome(graph, stress_budget, num_students)]
           random_count == IF population_size - 1 - greedy_count > 0
                           THEN population_size - 1 - greedy_count ELSE 0
       IN IF greedy_count >= 1
             /\ GreedyChromosomeRaises(graph, stress_budget, num_students)
          THEN /\ population' = <<identity>>
               /\ pc' = "raised NameError"
          ELSE /\ \E randoms \in [1 .. random_count -> RandomChromosomes(num_students)] :
                     population' = <<identity>> \o greedy \o randoms
               /\ pc' = "generation"
    /\ new_population' = <<>>
    /\ best_individual' = <<>>
    /\ best_fitness' = MinusInfinity
    /\ generation' = 0
    /\ UNCHANGED <<inputVars, constructionVars, assignment, swap_tries, iteration,
                   best_assignment, best_happiness, annealVars, result>>
    /\ random_callers' = IF pc' = "generation"
                            /\ population_size - 1 - population_size \div 4 > 0
                         THEN Drawn ELSE random_callers

\* genetic.py 25-39: start of a generation: score, track the best, copy the elites
GeneticEvaluate ==
    /\ pc = "generation"
    /\ generation < generations
    /\ LET scores == fitness_scores(population, graph, stress_budget)
           tracked == TrackBest(population, scores, best_individual, best_fitness)
       IN /\ best_individual' = tracked[1]
          /\ best_fitness' = tracked[2]
          /\ new_population' = Elites(population, scores)
    /\ pc' = "offspring"
    /\ UNCHANGED <<inputVars, constructionVars, assignment, swap_tries, iteration,
                   best_assignment, best_happiness, annealVars, population,
                   generation, result>>
    /\ UNCHANGED random_callers

\* genetic.py 48-54: what a crossover child can be after the optional mutation
\* and the repair
RepairedChildren(child, G, s) ==
    {repair_chromosome(mutated, G, s) : mutated \in MaybeMutated(child)}

\* offspring whose second child is appended without looking at the size
GeneticOffspringBothChildren ==
    /\ pc = "offspring"
    /\ Len(new_population) < population_size
    /\ LET scores == fitness_scores(population, graph, stress_budget)
       IN \E i1, i2 \in TournamentWinners(scores) :
             \E children \in Crossovers(population[i1], population[i2]) :
                \E child1 \in RepairedChildren(children[1], graph, stress_budget),
                   child2 \in RepairedChildren(children[2], graph, stress_budget) :
                   new_population' = new_population \o <<child1, child2>>
    /\ UNCHANGED <<inputVars, constructionVars, assignment, swap_tries, iteration,
                   best_assignment, best_happiness, annealVars, population,
                   best_individual, best_fitness, generation, pc, result>>
    /\ random_callers' = Drawn

\* genetic.py 42-58: two parents, two children, mutation, repair; child2 is
\* appended only while the new population is not full
GeneticOffspring ==
    /\ pc = "offspring"
    /\ Len(new_population) < population_size
    /\ LET scores == fitness_scores(population, graph, stress_budget)
       IN \E i1, i2 \in TournamentWinners(scores) :
             \E children \in Crossovers(population[i1], population[i2]) :
                IF Len(new_population) + 1 < population_size
                THEN \E child1 \in RepairedChildren(children[1], graph, stress_budget),
                        child2 \in RepairedChildren(children[2], graph, stress_budget) :
                        new_population' = new_population \o <<child1, child2>>
                ELSE \E child1 \in RepairedChildren(children[1], graph, stress_budget) :
                        new_population' = new_population \o <<child1>>
    /\ UNCHANGED <<inputVars, constructionVars, assignment, swap_tries, iteration,
                   best_assignment, best_happiness, annealVars, population,
                   best_individual, best_fitness, generation, pc, result>>
    /\ random_callers' = Drawn

\* genetic.py 60: the new population replaces the old one
GeneticNextGeneration ==
    /\ pc = "offspring"
    /\ Len(new_population) >= population_size
    /\ population' = new_population
    /\ new_population' = <<>>
    /\ generation' = generation + 1
    /\ pc' = "generation"
    /\ UNCHANGED <<inputVars, constructionVars, assignment, swap_tries, iteration,
                   best_assignment, best_happiness, annealVars, best_individual,
                   best_fitness, result>>
    /\ UNCHANGED random_callers

\* genetic.py 71: the decoded best individual fails the validity check
FallbackTaken(individual, G, s) ==
    ~is_valid_solution(chromosome_to_dict(individual), G, s, CountRooms(individual))

\* genetic.py 62-75: score the last population, decode the best, fall back to the
\* identity assignment when it is invalid, return
GeneticReturn ==
    /\ pc = "generation"
    /\ generation >= generations
    /\ LET scores == fitness_scores(population, graph, stress_budget)
           tracked == TrackBest(population, scores, best_individual, best_fitness)
       IN /\ best_individual' = tracked[1]
          /\ best_fitness' = tracked[2]
          /\ result' =
                IF FallbackTaken(tracked[1], graph, stress_budget)
                THEN [assignment |-> IdentityAssignment(graph.n), num_rooms |-> graph.n]
                ELSE [assignment |-> chromosome_to_dict(tracked[1]),
                      num_rooms |-> CountRooms(tracked[1])]
    /\ pc' = "done"
    /\ UNCHANGED <<inputVars, constructionVars, assignment, swap_tries, iteration,
                   best_assignment, best_happiness, annealVars, population,
                   new_population, generation>>
    /\ UNCHANGED random_callers

\* ---------------------------------------------------------------- validity calls
\* The arguments <<assignment, num_rooms>> of the solvers' is_valid_solution calls.
\* greedy.py 116-131, 148-160 and 190-196: the candidates of a round's move
\* phase (students who are not alone, to every other room), of its swap phase
\* (one student each of two rooms) and of try_merge_rooms, with the room count
\* that is passed along
LocalSearchChecks(D) ==
    {<<[D EXCEPT ![mv[1]] = mv[2]], NumRooms(D)>> :
        mv \in {p \in (DOMAIN D) \X RoomIds(D) :
                   /\ Cardinality(Members(D, D[p[1]])) # 1
                   /\ p[2] # D[p[1]]}}
    \cup {<<[D EXCEPT ![sw[1]] = D[sw[2]], ![sw[2]] = D[sw[1]]], NumRooms(D)>> :
        sw \in {p \in (DOMAIN D) \X (DOMAIN D) : D[p[1]] # D[p[2]]}}
    \cup {<<MergeCandidate(D, ab[1], ab[2]), NumRooms(MergeCandidate(D, ab[1], ab[2]))>> :
        ab \in {p \in RoomIds(D) \X RoomIds(D) :
                   FirstStudent(D, p[1]) < FirstStudent(D, p[2])}}

\* simulated_annealing.py 41-43: evaluate_solution passes len(get_room_lists(D))
EvaluateSolutionCheck(D) == <<D, Len(get_room_lists(D))>>

\* genetic.py 167-170, 267-270 and 68-71: len(set(chromosome))
ChromosomeCheck(chromosome) == <<chromosome_to_dict(chromosome), CountRooms(chromosome)>>

\* ---------------------------------------------------------------- inputs
Graphs ==
    UNION {[n : {n}, happiness : [Pairs(n) -> 0 .. MaxHappiness],
            stress : [Pairs(n) -> 0 .. MaxStress]] : n \in NodeCounts}

\* four-node graphs for greedy + local search: one stress pattern, every 0/1
\* happiness
FourNodeStress ==
    (<<0, 1>> :> 0) @@ (<<0, 2>> :> 0) @@ (<<0, 3>> :> 1)
    @@ (<<1, 2>> :> 1) @@ (<<1, 3>> :> 0) @@ (<<2, 3>> :> 1)
FourNodeGraphs ==
    [n : {4}, happiness : [Pairs(4) -> {0, 1}], stress : {FourNodeStress}]
\* a four-node graph on which the pairs built by the ranked merges, {0,1} and
\* {2,3}, are worse than {0,2} and {1,3}, and no room of three fits the budget 2
SwapHappiness ==
    (<<0, 1>> :> 1) @@ (<<0, 2>> :> 1) @@ (<<0, 3>> :> 0)
    @@ (<<1, 2>> :> 0) @@ (<<1, 3>> :> 1) @@ (<<2, 3>> :> 0)
SwapStress ==
    (<<0, 1>> :> 0) @@ (<<0, 2>> :> 1) @@ (<<0, 3>> :> 2)
    @@ (<<1, 2>> :> 2) @@ (<<1, 3>> :> 1) @@ (<<2, 3>> :> 0)
SwapGraph == [n |-> 4, happiness |-> SwapHappiness, stress |-> SwapStress]
\* a four-node graph on which the ranked merges build two rooms of two, {0,1}
\* and {2,3}, each with stress 1
PairedGraph ==
    [n |-> 4,
     happiness |-> [e \in Pairs(4) |-> IF e \in {<<0, 1>>, <<2, 3>>} THEN 1 ELSE 0],
     stress |-> [e \in Pairs(4) |-> IF e \in {<<0, 1>>, <<2, 3>>} THEN 1 ELSE 2]]
GreedyGraphs == Graphs \cup FourNodeGraphs \cup {SwapGraph, PairedGraph}

IterCaps == (0 .. MaxIterCap) \cup {DefaultMaxLocalSearchIterations}

\* no function is called directly while a solver runs
NoArgs == [fn |-> "none"]

NoFrame == [solver |-> "none"]

\* one invocation, nothing suspended, the generator not yet used
InitAlone ==
    /\ running = 1
    /\ parked = NoFrame
    /\ random_callers = {}

InitCommon ==
    /\ pc = "call"
    /\ edges = <<>>
    /\ edge_idx = 0
    /\ assignment = <<>>
    /\ rooms = <<>>
    /\ room_stress = <<>>
    /\ best_assignment = <<>>
    /\ best_happiness = 0
    /\ iteration = 0
    /\ swap_tries = 0
    /\ current_assignment = <<>>
    /\ room_assignments = <<>>
    /\ current_happiness = 0
    /\ temperature = 0
    /\ batch_pos = 0
    /\ no_improve_count = 0
    /\ reheat_count = 0
    /\ population = <<>>
    /\ new_population = <<>>
    /\ best_individual = <<>>
    /\ best_fitness = MinusInfinity
    /\ generation = 0
    /\ result = NoResult

InitGreedy ==
    /\ solver = "greedy"
    /\ args = NoArgs
    /\ max_local_search_iterations \in IterCaps
    /\ population_size = default_population_size
    /\ generations = default_generations
    /\ graph \in GreedyGraphs
    /\ stress_budget \in 1 .. MaxBudget
    /\ InitCommon
    /\ InitAlone

NextGreedy ==
    \/ GreedyEnter
    \/ GreedyConstructionStep
    \/ GreedyConstructionReturn
    \/ LocalSearchMoves
    \/ LocalSearchSwap
    \/ LocalSearchMerge
    \/ LocalSearchStop
    \/ LocalSearchCap

SpecGreedy == InitGreedy /\ [][NextGreedy]_vars

\* greedy_local_search followed by further calls of local_search on its result
NextGreedyTwice == NextGreedy \/ LocalSearchAgain
SpecGreedyTwice == InitGreedy /\ [][NextGreedyTwice]_vars

\* simulated annealing is run on every graph of one or two nodes and on a few
\* three-node graphs (one happiness pattern, loose to tight stress)
ThreeNodeHappiness == (<<0, 1>> :> 2) @@ (<<0, 2>> :> 1) @@ (<<1, 2>> :> 0)
ThreeNodeStress ==
    {(<<0, 1>> :> 0) @@ (<<0, 2>> :> 0) @@ (<<1, 2>> :> 0),
     (<<0, 1>> :> 1) @@ (<<0, 2>> :> 0) @@ (<<1, 2>> :> 1),
     (<<0, 1>> :> 2) @@ (<<0, 2>> :> 1) @@ (<<1, 2>> :> 2)}
AnnealGraphs ==
    {g \in Graphs : g.n <= 2}
    \cup [n : {3}, happiness : {ThreeNodeHappiness}, stress : ThreeNodeStress]

InitAnneal ==
    /\ solver = "sim_annealing"
    /\ args = NoArgs
    /\ max_local_search_iterations = DefaultMaxLocalSearchIterations
    /\ population_size = default_population_size
    /\ generations = default_generations
    /\ graph \in AnnealGraphs
    /\ stress_budget \in 1 .. MaxBudget
    /\ InitCommon
    /\ InitAlone

NextAnneal ==
    \/ AnnealEnter
    \/ GreedyInitStep
    \/ GreedyInitReturn
    \/ AnnealTransfer
    \/ AnnealSwap
    \/ AnnealMerge
    \/ AnnealSplit
    \/ AnnealCool
    \/ AnnealReturn

SpecAnneal == InitAnneal /\ [][NextAnneal]_vars

\* The genetic algorithm is run with small populations and few generations: on
\* every graph of one or two nodes with populations of 3 (no greedy chromosome)
\* and 4 (one greedy chromosome), and on one three-node graph with a population
\* of 3.
PopulationSizes == {3, 4}
ThreeNodeGenetic ==
    [graph |-> [n |-> 3, happiness |-> ThreeNodeHappiness,
                stress |-> (<<0, 1>> :> 1) @@ (<<0, 2>> :> 0) @@ (<<1, 2>> :> 1)],
     stress_budget |-> 1, population_size |-> 3]
GeneticInputs ==
    [graph : {g \in Graphs : g.n <= 2}, stress_budget : 1 .. MaxBudget,
     population_size : PopulationSizes]
    \cup {ThreeNodeGenetic}

InitGenetic ==
    /\ solver = "genetic"
    /\ args = NoArgs
    /\ max_local_search_iterations = DefaultMaxLocalSearchIterations
    /\ \E input \in GeneticInputs :
          /\ graph = input.graph
          /\ stress_budget = input.stress_budget
          /\ population_size = input.population_size
    /\ generations \in 0 .. MaxGenerations
    /\ InitCommon
    /\ InitAlone

NextGenetic ==
    \/ GeneticEnter
    \/ GeneticEvaluate
    \/ GeneticOffspring
    \/ GeneticNextGeneration
    \/ GeneticReturn

SpecGenetic == InitGenetic /\ [][NextGenetic]_vars

\* ---------------------------------------------------------------- direct calls
\* The functions of utils.py and the two renumber_rooms, called on their own
\* with arguments drawn from small sets. Room ids range over 0..n, so that an
\* assignment may skip ids.
workingVars == <<constructionVars, assignment, best_assignment, best_happiness,
                 iteration, swap_tries, annealVars, geneticVars>>

Assignments(n) == [0 .. (n - 1) -> 0 .. n]
DirectCalls(n) ==
    [fn : {"is_valid_solution"}, D : Assignments(n), num_rooms : 0 .. n]
    \cup [fn : {"calculate_happiness", "renumber_rooms", "sa_renumber_rooms"},
          D : Assignments(n)]
    \cup [fn : {"evaluate_fitness"}, chromosome : [1 .. n -> 0 .. n]]

\* utils.py 16-25: s / num_rooms is evaluated first, before any room is looked at
IsValidSolutionCall ==
    /\ pc = "call"
    /\ solver = "direct"
    /\ args.fn = "is_valid_solution"
    /\ IF args.num_rooms = 0
          THEN /\ pc' = "raised ZeroDivisionError"
               /\ UNCHANGED result
          ELSE /\ pc' = "returned"
               /\ result' = is_valid_solution(args.D, graph, stress_budget,
                                              args.num_rooms)
    /\ UNCHANGED <<inputVars, workingVars>>
    /\ UNCHANGED random_callers

\* utils.py 39-47
CalculateHappinessCall ==
    /\ pc = "call"
    /\ solver = "direct"
    /\ args.fn = "calculate_happiness"
    /\ pc' = "returned"
    /\ result' = calculate_happiness(args.D, graph)
    /\ UNCHANGED <<inputVars, workingVars>>
    /\ UNCHANGED random_callers

\* greedy.py 89-93: returns (renumbered, len(room_ids))
RenumberRoomsCall ==
    /\ pc = "call"
    /\ solver = "direct"
    /\ args.fn = "renumber_rooms"
    /\ pc' = "returned"
    /\ result' = [assignment |-> renumber_rooms(args.D),
                  num_rooms |-> NumRooms(args.D)]
    /\ UNCHANGED <<inputVars, workingVars>>
    /\ UNCHANGED random_callers

\* simulated_annealing.py 26-37: returns renumbered
SaRenumberRoomsCall ==
    /\ pc = "call"
    /\ solver = "direct"
    /\ args.fn = "sa_renumber_rooms"
    /\ pc' = "returned"
    /\ result' = sa_renumber_rooms(args.D)
    /\ UNCHANGED <<inputVars, workingVars>>
    /\ UNCHANGED random_callers

\* genetic.py 165-175
EvaluateFitnessCall ==
    /\ pc = "call"
    /\ solver = "direct"
    /\ args.fn = "evaluate_fitness"
    /\ pc' = "returned"
    /\ result' = evaluate_fitness(args.chromosome, graph, stress_budget)
    /\ UNCHANGED <<inputVars, workingVars>>
    /\ UNCHANGED random_callers

InitDirect ==
    /\ solver = "direct"
    /\ max_local_search_iterations = DefaultMaxLocalSearchIterations
    /\ population_size = default_population_size
    /\ generations = default_generations
    /\ graph \in Graphs
    /\ stress_budget \in 1 .. MaxBudget
    /\ args \in DirectCalls(graph.n)
    /\ InitCommon
    /\ InitAlone

NextDirect ==
    \/ IsValidSolutionCall
    \/ CalculateHappinessCall
    \/ RenumberRoomsCall
    \/ SaRenumberRoomsCall
    \/ EvaluateFitnessCall

SpecDirect == InitDirect /\ [][NextDirect]_vars

\* ---------------------------------------------------------------- repair_chromosome
\* genetic.py 254-298 called on its own, one action per split attempt. The list
\* that is passed in is changed in place and returned: it is held in result.
\* iteration counts the attempts that split a room.
\* Four students are the fewest with two rooms that can both be over budget; the
\* two uniform graphs of 11 and 12 students, everyone in one room, are the
\* inputs that need 10 and more than 10 splits.
UniformGraph(n) ==
    [n |-> n, happiness |-> [e \in Pairs(n) |-> 0], stress |-> [e \in Pairs(n) |-> 1]]
RepairInputs ==
    [graph : [n : {4}, happiness : {[e \in Pairs(4) |-> 0]},
              stress : [Pairs(4) -> 0 .. MaxStress]],
     stress_budget : {1, MaxBudget},
     chromosome : [1 .. 4 -> 0 .. 3]]
    \cup {[graph |-> UniformGraph(n), stress_budget |-> 1,
            chromosome |-> [i \in 1 .. n |-> 0]] : n \in {11, 12}}

\* genetic.py 254-271: renumber in place, return at once when valid
RepairEnter ==
    /\ pc = "call"
    /\ solver = "direct"
    /\ args.fn = "repair_chromosome"
    /\ result' = RenumberChromosome(args.chromosome)
    /\ pc' = IF is_valid_solution(chromosome_to_dict(result'), graph, stress_budget,
                                  CountRooms(result'))
             THEN "returned" ELSE "repair"
    /\ iteration' = 0
    /\ UNCHANGED <<inputVars, constructionVars, assignment, best_assignment,
                   best_happiness, swap_tries, annealVars, geneticVars>>
    /\ UNCHANGED random_callers

\* genetic.py 274-296: one attempt: split a room, or find nothing to split and
\* leave the loop
RepairSplit ==
    /\ pc = "repair"
    /\ solver = "direct"
    /\ iteration < repair_attempts
    /\ LET split == RepairAttempt(result, graph, stress_budget)
       IN IF split = result
          THEN /\ pc' = "returned"
               /\ UNCHANGED <<result, iteration>>
          ELSE /\ result' = split
               /\ iteration' = iteration + 1
               /\ UNCHANGED pc
    /\ UNCHANGED <<inputVars, constructionVars, assignment, best_assignment,
                   best_happiness, swap_tries, annealVars, geneticVars>>
    /\ UNCHANGED random_callers

\* genetic.py 274, 298: the attempts are used up
RepairReturn ==
    /\ pc = "repair"
    /\ solver = "direct"
    /\ iteration = repair_attempts
    /\ pc' = "returned"
    /\ UNCHANGED <<inputVars, workingVars, result>>
    /\ UNCHANGED random_callers

InitRepair ==
    /\ solver = "direct"
    /\ max_local_search_iterations = DefaultMaxLocalSearchIterations
    /\ population_size = default_population_size
    /\ generations = default_generations
    /\ \E input \in RepairInputs :
          /\ graph = input.graph
          /\ stress_budget = input.stress_budget
          /\ args = [fn |-> "repair_chromosome", chromosome |-> input.chromosome]
    /\ InitCommon
    /\ InitAlone

NextRepair ==
    \/ RepairEnter
    \/ RepairSplit
    \/ RepairReturn

SpecRepair == InitRepair /\ [][NextRepair]_vars

\* ---------------------------------------------------------------- cooling schedule
\* simulated_annealing.py 57-71, 166-172 on the code's own schedule constants
\* (cooling_rate = 0.97, reheat_threshold = 150, max_iterations = 500 * N). The
\* stall counter first exceeds 150 after more than 150 iterations, which the
\* solver model above cannot afford for the sizes where it matters; here the
\* loop keeps its counters and its temperature only, and the body of an
\* iteration is reduced to its three effects on the stall counter.
cooling_percent == 97
reheat_threshold == 150
max_iterations(n) == 500 * n

\* num_students of the runs, and the number of iterations that are followed
ScheduleSizes == {6, 21, 50}
MaxScheduleIterations == 170

\* simulated_annealing.py 57-69
ScheduleEnter ==
    /\ pc = "call"
    /\ solver = "schedule"
    /\ pc' = "anneal"
    /\ temperature' = initial_temp
    /\ iteration' = 0
    /\ no_improve_count' = 0
    /\ reheat_count' = 0
    /\ batch_pos' = 0
    /\ UNCHANGED <<inputVars, constructionVars, assignment, swap_tries,
                   best_assignment, best_happiness, current_assignment,
                   room_assignments, current_happiness, geneticVars, result>>
    /\ UNCHANGED random_callers

\* simulated_annealing.py 71
ScheduleLoopCondition ==
    /\ temperature > min_temp
    /\ iteration < max_iterations(args.num_students)
    /\ reheat_count < max_reheats

\* simulated_annealing.py 72-164: one iteration. It leaves the stall counter
\* alone (continue, 134-135), resets it (a new best, 157-160) or adds one (162,
\* 164).
ScheduleIteration ==
    /\ pc = "anneal"
    /\ solver = "schedule"
    /\ batch_pos < iterations_per_temp(args.num_students)
    /\ (batch_pos > 0 \/ ScheduleLoopCondition)
    /\ iteration < MaxScheduleIterations
    /\ iteration' = iteration + 1
    /\ batch_pos' = batch_pos + 1
    /\ no_improve_count' \in {no_improve_count, 0, no_improve_count + 1}
    /\ UNCHANGED <<inputVars, constructionVars, assignment, swap_tries,
                   best_assignment, best_happiness, current_assignment,
                   room_assignments, current_happiness, temperature,
                   reheat_count, pc, geneticVars, result>>
    /\ random_callers' = Drawn

\* simulated_annealing.py 166-172
ScheduleCooled(temp) == (temp * cooling_percent) \div 100

ScheduleCool ==
    /\ pc = "anneal"
    /\ solver = "schedule"
    /\ batch_pos = iterations_per_temp(args.num_students)
    /\ IF no_improve_count > reheat_threshold
       THEN /\ temperature' = ReheatedTemperature(ScheduleCooled(temperature))
            /\ no_improve_count' = 0
            /\ reheat_count' = reheat_count + 1
       ELSE /\ temperature' = ScheduleCooled(temperature)
            /\ UNCHANGED <<no_improve_count, reheat_count>>
    /\ batch_pos' = 0
    /\ UNCHANGED <<inputVars, constructionVars, assignment, swap_tries, iteration,
                   best_assignment, best_happiness, current_assignment,
                   room_assignments, current_happiness, pc, geneticVars, result>>
    /\ UNCHANGED random_callers

InitSchedule ==
    /\ solver = "schedule"
    /\ max_local_search_iterations = DefaultMaxLocalSearchIterations
    /\ population_size = default_population_size
    /\ generations = default_generations
    /\ graph \in {g \in Graphs : g.n = 1}
    /\ stress_budget = 1
    /\ args \in [fn : {"simulated_annealing"}, num_students : ScheduleSizes]
    /\ InitCommon
    /\ InitAlone

NextSchedule ==
    \/ ScheduleEnter
    \/ ScheduleIteration
    \/ ScheduleCool

SpecSchedule == InitSchedule /\ [][NextSchedule]_vars

\* ---------------------------------------------------------------- two invocations
\* Two solver calls (run.py 37: func(G, s)) whose steps are interleaved. The
\* variables of the solvers hold the frame of the invocation that is running;
\* the frame of the other one is parked. The generator of the random module
\* belongs to the process, not to a frame.
Frame ==
    [solver |-> solver, graph |-> graph, stress_budget |-> stress_budget,
     max_local_search_iterations |-> max_local_search_iterations,
     population_size |-> population_size, generations |-> generations,
     args |-> args, pc |-> pc, edges |-> edges, edge_idx |-> edge_idx,
     assignment |-> assignment, rooms |-> rooms, room_stress |-> room_stress,
     best_assignment |-> best_assignment, best_happiness |-> best_happiness,
     iteration |-> iteration, swap_tries |-> swap_tries,
     current_assignment |-> current_assignment,
     room_assignments |-> room_assignments,
     current_happiness |-> current_happiness, temperature |-> temperature,
     batch_pos |-> batch_pos, no_improve_count |-> no_improve_count,
     reheat_count |-> reheat_count, population |-> population,
     new_population |-> new_population, best_individual |-> best_individual,
     best_fitness |-> best_fitness, generation |-> generation,
     result |-> result]

InitialFrame(call) ==
    [solver |-> call.solver, graph |-> call.graph, stress_budget |-> call.stress_budget,
     max_local_search_iterations |-> call.max_iterations,
     population_size |-> default_population_size,
     generations |-> default_generations, args |-> NoArgs, pc |-> "call",
     edges |-> <<>>, edge_idx |-> 0, assignment |-> <<>>, rooms |-> <<>>,
     room_stress |-> <<>>, best_assignment |-> <<>>, best_happiness |-> 0,
     iteration |-> 0, swap_tries |-> 0, current_assignment |-> <<>>,
     room_assignments |-> <<>>, current_happiness |-> 0, temperature |-> 0,
     batch_pos |-> 0, no_improve_count |-> 0, reheat_count |-> 0,
     population |-> <<>>, new_population |-> <<>>, best_individual |-> <<>>,
     best_fitness |-> MinusInfinity, generation |-> 0, result |-> NoResult]

\* the running invocation is suspended and the parked one resumes
ContextSwitch ==
    /\ parked # NoFrame
    /\ parked' = Frame
    /\ running' = 3 - running
    /\ solver' = parked.solver
    /\ graph' = parked.graph
    /\ stress_budget' = parked.stress_budget
    /\ max_local_search_iterations' = parked.max_local_search_iterations
    /\ population_size' = parked.population_size
    /\ generations' = parked.generations
    /\ args' = parked.args
    /\ pc' = parked.pc
    /\ edges' = parked.edges
    /\ edge_idx' = parked.edge_idx
    /\ assignment' = parked.assignment
    /\ rooms' = parked.rooms
    /\ room_stress' = parked.room_stress
    /\ best_assignment' = parked.best_assignment
    /\ best_happiness' = parked.best_happiness
    /\ iteration' = parked.iteration
    /\ swap_tries' = parked.swap_tries
    /\ current_assignment' = parked.current_assignment
    /\ room_assignments' = parked.room_assignments
    /\ current_happiness' = parked.current_happiness
    /\ temperature' = parked.temperature
    /\ batch_pos' = parked.batch_pos
    /\ no_improve_count' = parked.no_improve_count
    /\ reheat_count' = parked.reheat_count
    /\ population' = parked.population
    /\ new_population' = parked.new_population
    /\ best_individual' = parked.best_individual
    /\ best_fitness' = parked.best_fitness
    /\ generation' = parked.generation
    /\ result' = parked.result
    /\ UNCHANGED random_callers

\* the calls that are interleaved: greedy_local_search on four students (one
\* happy pair, budget 1) with the default cap, greedy_local_search on two students
\* with a cap of 0 rounds, simulated_annealing on two students
InterleavedCalls ==
    {[solver |-> "greedy", stress_budget |-> 1,
      max_iterations |-> DefaultMaxLocalSearchIterations,
      graph |-> [n |-> 4, stress |-> FourNodeStress,
                 happiness |-> [e \in Pairs(4) |-> IF e = <<1, 3>> THEN 1 ELSE 0]]],
     [solver |-> "greedy", stress_budget |-> 1, max_iterations |-> 0,
      graph |-> [n |-> 2, stress |-> (<<0, 1>> :> 0), happiness |-> (<<0, 1>> :> 1)]],
     [solver |-> "sim_annealing", stress_budget |-> 1,
      max_iterations |-> DefaultMaxLocalSearchIterations,
      graph |-> [n |-> 2, stress |-> (<<0, 1>> :> 0), happiness |-> (<<0, 1>> :> 1)]]}

InitInterleaved ==
    /\ \E call \in InterleavedCalls :
          /\ solver = call.solver
          /\ graph = call.graph
          /\ stress_budget = call.stress_budget
          /\ max_local_search_iterations = call.max_iterations
    /\ args = NoArgs
    /\ population_size = default_population_size
    /\ generations = default_generations
    /\ InitCommon
    /\ running = 1
    /\ parked \in {InitialFrame(call) : call \in InterleavedCalls}
    /\ random_callers = {}

NextInterleaved ==
    \/ GreedyEnter
    \/ GreedyConstructionStep
    \/ GreedyConstructionReturn
    \/ LocalSearchMoves
    \/ LocalSearchSwap
    \/ LocalSearchMerge
    \/ LocalSearchStop
    \/ LocalSearchCap
    \/ AnnealEnter
    \/ GreedyInitStep
    \/ GreedyInitReturn
    \/ AnnealTransfer
    \/ AnnealSwap
    \/ AnnealMerge
    \/ AnnealSplit
    \/ AnnealCool
    \/ AnnealReturn
    \/ ContextSwitch

SpecInterleaved == InitInterleaved /\ [][NextInterleaved]_vars

\* ---------------------------------------------------------------- all solvers
Init == InitGreedy \/ InitAnneal \/ InitGenetic

Next ==
    \/ GreedyEnter
    \/ GreedyConstructionStep
    \/ GreedyConstructionReturn
    \/ LocalSearchMoves
    \/ LocalSearchSwap
    \/ LocalSearchMerge
    \/ LocalSearchStop
    \/ LocalSearchCap
    \/ LocalSearchAgain
    \/ AnnealEnter
    \/ GreedyInitStep
    \/ GreedyInitReturn
    \/ AnnealTransfer
    \/ AnnealSwap
    \/ AnnealMerge
    \/ AnnealSplit
    \/ AnnealCool
    \/ AnnealReturn
    \/ GeneticEnter
    \/ GeneticEvaluate
    \/ GeneticOffspring
    \/ GeneticNextGeneration
    \/ GeneticReturn

Spec == Init /\ [][Next]_vars

\* ---------------------------------------------------------------- properties
Returned == pc = "done"

\* validity and contiguity of an assignment, written out from their definitions
PairwiseStress(members) ==
    SumOver({e \in Pairs(graph.n) : e[1] \in members /\ e[2] \in members},
            graph.stress)
ValidFor(D, room_count) ==
    \A room \in Range(D) :
        PairwiseStress({st \in DOMAIN D : D[st] = room}) * room_count <= stress_budget
Contiguous(D, room_count) == Range(D) = 0 .. (room_count - 1)

\* C1: whenever a solver returns (assignment, room_count), the assignment maps
\* exactly the nodes 0..N-1 and room_count is the number of distinct room ids in it.
C1_ReturnShape ==
    Returned =>
        /\ DOMAIN result.assignment = 0 .. (graph.n - 1)
        /\ result.num_rooms = Cardinality(Range(result.assignment))

\* a genetic run over two generations that returns fewer rooms than students
C1_Witness ==
    /\ Returned
    /\ solver = "genetic"
    /\ generation >= 1
    /\ graph.n = 3
    /\ result.num_rooms = 2

\* C2: the assignment returned by greedy_local_search is valid: every room's
\* pairwise stress is at most budget / returned room_count.
C2_GreedyReturnsValid ==
    (Returned /\ solver = "greedy") =>
        ValidFor(result.assignment, result.num_rooms)

\* greedy + local search returns several rooms after at least one improving round
C2_Witness ==
    /\ Returned
    /\ solver = "greedy"
    /\ iteration >= 1
    /\ result.num_rooms >= 2
    /\ \E room \in Range(result.assignment) :
          PairwiseStress({st \in DOMAIN result.assignment :
                             result.assignment[st] = room}) > 0

\* C3: in every state of simulated_annealing, best_assignment is valid for its own
\* room count, whatever the current state is.
C3_BestAlwaysValid ==
    (solver = "sim_annealing" /\ pc \in {"anneal", "done"}) =>
        ValidFor(best_assignment, Cardinality(Range(best_assignment)))

\* the current state is an accepted invalid candidate while the best stays valid
C3_Witness ==
    /\ solver = "sim_annealing"
    /\ pc = "anneal"
    /\ ~ValidFor(current_assignment, Cardinality(Range(current_assignment)))
    /\ current_happiness = 0 - invalid_penalty
    /\ best_assignment # current_assignment

\* C4: any assignment returned by genetic_algorithm is valid under the budget for
\* its returned room_count.
C4_GeneticReturnsValid ==
    (Returned /\ solver = "genetic") =>
        ValidFor(result.assignment, result.num_rooms)

\* a genetic run whose population held an invalid chromosome returns a grouping
C4_Witness ==
    /\ Returned
    /\ solver = "genetic"
    /\ result.num_rooms < graph.n
    /\ \E k \in 1 .. Len(population) :
          ~ValidFor(chromosome_to_dict(population[k]), CountRooms(population[k]))

\* C5: genetic_algorithm runs to completion; no step aborts with an error.
C5_GeneticNeverAborts ==
    solver = "genetic" => pc # "raised NameError"

\* ---- termination ----
\* One call runs without interruption: a step that is enabled is eventually taken.
FairSpecGreedy == SpecGreedy /\ WF_vars(NextGreedy)
FairSpecAnneal == SpecAnneal /\ WF_vars(NextAnneal)

\* a local_search round that does not end the search
RoundContinues == pc' = "local_search" /\ iteration' = iteration + 1

\* C6: greedy_local_search always terminates: greedy construction takes each ranked
\* pair once, local_search runs at most max_local_search_iterations rounds, and every
\* round that does not end the search strictly increases the total happiness or
\* reduces the room count.
C6_GreedyTerminates ==
    /\ <>Returned
    /\ [](pc \in {"local_search", "swap", "merge", "done"} =>
             iteration <= max_local_search_iterations)
    /\ [][(pc = "greedy_construction" /\ pc' = "greedy_construction") =>
             (edge_idx' = edge_idx + 1 /\ edge_idx <= Len(edges) /\ edges' = edges)]_vars
    /\ [][RoundContinues =>
             \/ calculate_happiness(best_assignment', graph) >
                    calculate_happiness(best_assignment, graph)
             \/ Cardinality(Range(best_assignment')) <
                    Cardinality(Range(best_assignment))]_vars

\* the search returns at the round cap after rounds that improved the assignment
C6_Witness ==
    /\ Returned
    /\ solver = "greedy"
    /\ max_local_search_iterations >= 1
    /\ iteration = max_local_search_iterations

\* the exit conditions of the cooling loop, read at a batch boundary
AtBatchBoundary == pc = "anneal" /\ batch_pos = 0
ExitCondition ==
    \/ temperature <= min_temp
    \/ iteration >= sa_max_iterations(graph.n)
    \/ reheat_count >= max_reheats

\* C7: simulated_annealing always terminates: the cooling loop exits as soon as, at a
\* batch boundary, the temperature is at the floor, the iteration cap is reached or
\* three reheats have happened; reheating does not postpone the exit for ever.
C7_AnnealTerminates ==
    /\ <>Returned
    /\ [][(AtBatchBoundary /\ ExitCondition) => pc' = "done"]_vars
    /\ [][(pc = "anneal" /\ pc' = "done") => (AtBatchBoundary /\ ExitCondition)]_vars

\* the loop ends after a reheat, on the iteration cap, above the temperature floor
C7_Witness ==
    /\ Returned
    /\ solver = "sim_annealing"
    /\ reheat_count >= 1
    /\ temperature > min_temp
    /\ iteration >= sa_max_iterations(graph.n)

\* C8: the assignment returned by greedy_local_search and by simulated_annealing
\* uses exactly the room ids 0..k-1, k being the returned room_count.
C8_ReturnedIdsContiguous ==
    (Returned /\ solver \in {"greedy", "sim_annealing"}) =>
        Contiguous(result.assignment, result.num_rooms)

\* greedy returns two rooms for four students after a merge round of local_search
C8_Witness ==
    /\ Returned
    /\ solver = "greedy"
    /\ graph.n = 4
    /\ iteration >= 1
    /\ result.num_rooms = 2

\* C9: the assignment returned by genetic_algorithm uses exactly the room ids
\* 0..k-1, k being the returned room_count, whichever individual is the best.
C9_GeneticIdsContiguous ==
    (Returned /\ solver = "genetic") =>
        Contiguous(result.assignment, result.num_rooms)

\* two students, positive happiness, stress within the budget
TwoNodeScenario ==
    /\ graph.n = 2
    /\ Happiness(graph, 0, 1) > 0
    /\ Stress(graph, 0, 1) <= stress_budget

\* C10: in the two-student scenario each of the three solvers returns the single
\* room {0, 1} with room_count 1.
C10_TwoNodesShareARoom ==
    TwoNodeScenario =>
        /\ pc # "raised NameError"
        /\ Returned => /\ result.assignment[0] = result.assignment[1]
                       /\ result.num_rooms = 1

\* two students whose pairwise stress exceeds the budget
TwoNodeOverBudget ==
    /\ graph.n = 2
    /\ Stress(graph, 0, 1) > stress_budget

\* C11: on two students whose stress exceeds the budget each of the three solvers
\* returns two separate rooms (room_count 2) with total happiness 0, whatever the
\* random choices are.
C11_TwoNodesStaySeparate ==
    (TwoNodeOverBudget /\ solver \in {"greedy", "sim_annealing", "genetic"}) =>
        /\ pc # "raised NameError"
        /\ Returned =>
              /\ result.assignment[0] # result.assignment[1]
              /\ result.num_rooms = 2
              /\ SumOver({e \in Pairs(graph.n) :
                             result.assignment[e[1]] = result.assignment[e[2]]},
                         graph.happiness) = 0

\* the genetic algorithm, with a greedy chromosome in its population and one
\* generation run, returns on a two-student graph with positive happiness and
\* stress over the budget
C11_Witness ==
    /\ TwoNodeOverBudget
    /\ Happiness(graph, 0, 1) > 0
    /\ solver = "genetic"
    /\ population_size = 4
    /\ generation >= 1
    /\ Returned

\* C12: local search is idempotent on its own output: run again on an assignment
\* it returned (with the default round cap), it returns the same assignment, hence
\* the same happiness, whatever the shuffles and the sampled swaps are.
C12_LocalSearchIdempotent ==
    [][(/\ solver = "greedy"
        /\ max_local_search_iterations = DefaultMaxLocalSearchIterations
        /\ result # NoResult
        /\ pc # "done"
        /\ pc' = "done") => result' = result]_vars

DirectCall(fn) == solver = "direct" /\ args.fn = fn

\* C13: is_valid_solution called with num_rooms = 0 returns False and raises
\* no error.
C13_ZeroRoomsIsInvalid ==
    (DirectCall("is_valid_solution") /\ args.num_rooms = 0) =>
        /\ pc # "raised ZeroDivisionError"
        /\ pc = "returned" => result = FALSE

IdentityCall ==
    /\ DirectCall("is_valid_solution")
    /\ args.D = IdentityAssignment(graph.n)
    /\ args.num_rooms = graph.n

\* C14: is_valid_solution accepts the identity assignment (student i alone in
\* room i, num_rooms = N) for every graph and every positive budget.
C14_IdentityIsValid ==
    (IdentityCall /\ pc # "call") => (pc = "returned" /\ result = TRUE)
C14_Witness ==
    /\ IdentityCall
    /\ pc = "returned"
    /\ graph.n = 3
    /\ \A e \in Pairs(3) : graph.stress[e] = MaxStress
    /\ stress_budget = 1

\* the same rooms under other room ids: f o D for an injective f
Renamings(D) ==
    {f \in [RoomIds(D) -> 0 .. Cardinality(DOMAIN D)] :
        \A a, b \in RoomIds(D) : a # b => f[a] # f[b]}
Renamed(f, D) == [st \in DOMAIN D |-> f[D[st]]]
SamePartition(D1, D2) ==
    /\ DOMAIN D1 = DOMAIN D2
    /\ \A a, b \in DOMAIN D1 : (D1[a] = D1[b]) <=> (D2[a] = D2[b])

\* C15: calculate_happiness gives the same total for an assignment and for
\* every injective renaming of its room ids; both renumber_rooms functions
\* return an assignment with the same partition and the same total happiness.
C15_HappinessLabelInvariant ==
    (solver = "direct" /\ pc = "returned") =>
        /\ args.fn = "calculate_happiness" =>
              \A f \in Renamings(args.D) :
                  calculate_happiness(Renamed(f, args.D), graph) = result
        /\ args.fn = "renumber_rooms" =>
              /\ SamePartition(args.D, result.assignment)
              /\ calculate_happiness(result.assignment, graph)
                     = calculate_happiness(args.D, graph)
        /\ args.fn = "sa_renumber_rooms" =>
              /\ SamePartition(args.D, result)
              /\ calculate_happiness(result, graph) = calculate_happiness(args.D, graph)
C15_Witness ==
    /\ DirectCall("renumber_rooms")
    /\ pc = "returned"
    /\ graph.n = 3
    /\ args.D = (0 :> 3) @@ (1 :> 1) @@ (2 :> 3)
    /\ result.assignment = (0 :> 1) @@ (1 :> 0) @@ (2 :> 1)
    /\ Happiness(graph, 0, 2) > 0

\* C16: two interleaved invocations share no mutable state: a step of the
\* running invocation leaves the other invocation's frame, the graph and the
\* budget unchanged, and no object that one invocation writes, the source of
\* random choices included, is read or written by the other.
C16_NoSharedState ==
    [][/\ running' = running =>
             /\ parked' = parked
             /\ graph' = graph
             /\ stress_budget' = stress_budget
       /\ Cardinality(random_callers') <= 1]_vars

Constructing == pc \in {"greedy_construction", "greedy_init"}
\* the students of the two rooms that the pair under consideration would join
PairRooms ==
    {st \in DOMAIN assignment :
        assignment[st] \in {assignment[edges[edge_idx][1]], assignment[edges[edge_idx][2]]}}
TriedMerge ==
    /\ Constructing
    /\ edge_idx <= Len(edges)
    /\ assignment[edges[edge_idx][1]] # assignment[edges[edge_idx][2]]

\* C17: in greedy_construction and greedy_init a merge accepted while k rooms
\* exist gives a room whose pairwise stress is at most budget / (k - 1); a
\* merge whose room would exceed that bound leaves assignment, rooms and
\* room_stress unchanged.
C17_AcceptedMergeFitsReducedBudget ==
    [][(TriedMerge /\ pc' = pc) =>
          /\ assignment' # assignment =>
                /\ PairwiseStress(PairRooms) * (NumRooms(assignment) - 1) <= stress_budget
                /\ NumRooms(assignment') = NumRooms(assignment) - 1
                /\ \E room \in RoomIds(assignment') :
                      Members(assignment', room) = PairRooms
          /\ PairwiseStress(PairRooms) * (NumRooms(assignment) - 1) > stress_budget =>
                /\ assignment' = assignment
                /\ rooms' = rooms
                /\ room_stress' = room_stress]_vars
C17_Witness ==
    /\ Constructing
    /\ \E room \in DOMAIN rooms : Len(rooms[room]) = 2 /\ room_stress[room] > 0
    /\ TriedMerge
    /\ PairwiseStress(PairRooms) * (NumRooms(assignment) - 1) > stress_budget

\* C18: after every step of greedy_construction and greedy_init (the start, each
\* pair considered, the final renumbering) every room of the assignment has
\* stress at most budget / (current number of rooms).
C18_ConstructionStaysValid ==
    [][/\ Constructing' => ValidFor(assignment', NumRooms(assignment'))
       /\ (Constructing /\ pc' = "local_search") =>
             ValidFor(assignment', NumRooms(assignment'))
       /\ (Constructing /\ pc' = "anneal") =>
             ValidFor(current_assignment', NumRooms(current_assignment'))]_vars
C18_Witness ==
    /\ Constructing
    /\ \E room_a, room_b \in DOMAIN rooms :
          /\ room_a # room_b
          /\ Len(rooms[room_a]) >= 2
          /\ Len(rooms[room_b]) >= 2
          /\ room_stress[room_a] > 0

\* total happiness of an assignment, summed over the pairs that share a room
HappinessOf(D) ==
    SumOver({e \in Pairs(graph.n) : D[e[1]] = D[e[2]]}, graph.happiness)

\* C19: in greedy_construction and greedy_init rooms[r] holds exactly the
\* students assigned to r and room_stress[r] is the pairwise stress of those
\* students, for every live room r; in simulated_annealing current_happiness
\* is the score of current_assignment (its happiness, or the penalty score if
\* it is invalid).
C19_BookkeepingMatchesRecomputation ==
    /\ Constructing =>
          /\ DOMAIN rooms = RoomIds(assignment)
          /\ DOMAIN room_stress = RoomIds(assignment)
          /\ \A room \in RoomIds(assignment) :
                /\ SeqToSet(rooms[room]) = Members(assignment, room)
                /\ Len(rooms[room]) = Cardinality(Members(assignment, room))
                /\ room_stress[room] = PairwiseStress(Members(assignment, room))
    /\ (solver = "sim_annealing" /\ pc = "anneal") =>
          current_happiness =
              IF ValidFor(current_assignment, NumRooms(current_assignment))
              THEN HappinessOf(current_assignment)
              ELSE 0 - invalid_penalty
C19_Witness ==
    /\ solver = "sim_annealing"
    /\ pc = "greedy_init"
    /\ \E room \in DOMAIN rooms : Len(rooms[room]) = 3 /\ room_stress[room] > 0

InLocalSearch == solver = "greedy" /\ pc \in {"local_search", "swap", "merge"}

\* C20: a move or swap applied by local_search leaves no room empty (after a
\* move round or a swap try the set of rooms is the same, a swap keeps every
\* room's size), and the room count changes within local_search only by an
\* accepted merge, which lowers it by exactly one.
C20_OnlyMergesChangeRoomCount ==
    [][InLocalSearch =>
          /\ pc \in {"local_search", "swap"} =>
                RoomIds(assignment') = RoomIds(assignment)
          /\ pc = "swap" =>
                \A room \in RoomIds(assignment) :
                    Cardinality(Members(assignment', room))
                        = Cardinality(Members(assignment, room))
          /\ NumRooms(assignment') # NumRooms(assignment) =>
                /\ pc = "merge"
                /\ NumRooms(assignment') = NumRooms(assignment) - 1
          /\ NumRooms(best_assignment') # NumRooms(best_assignment) =>
                /\ pc = "merge"
                /\ NumRooms(best_assignment') = NumRooms(best_assignment) - 1]_vars
C20_Witness ==
    /\ solver = "greedy"
    /\ graph = SwapGraph
    /\ stress_budget = 2
    /\ pc = "local_search"
    /\ iteration >= 1
    /\ NumRooms(assignment) = 2
    /\ assignment[0] = assignment[2]

StoppedBeforeCap ==
    /\ solver = "greedy"
    /\ pc = "done"
    /\ iteration < max_local_search_iterations
MovedTo(D, st, room) == [D EXCEPT ![st] = room]
MergedInto(D, room_a, room_b) ==
    [st \in DOMAIN D |-> IF D[st] = room_b THEN room_a ELSE D[st]]

\* C21: when local_search stops before the round cap, the returned assignment
\* is a local optimum: no move of one student out of a room of two or more
\* into another existing room is valid and strictly happier, and no two rooms
\* can be merged into a valid assignment.
C21_StopIsLocalOptimum ==
    StoppedBeforeCap =>
        /\ \A st \in DOMAIN result.assignment, room \in Range(result.assignment) :
              (/\ room # result.assignment[st]
               /\ Cardinality({o \in DOMAIN result.assignment :
                                  result.assignment[o] = result.assignment[st]}) >= 2)
              => ~(/\ ValidFor(MovedTo(result.assignment, st, room),
                               Cardinality(Range(MovedTo(result.assignment, st, room))))
                   /\ HappinessOf(MovedTo(result.assignment, st, room))
                          > HappinessOf(result.assignment))
        /\ \A room_a, room_b \in Range(result.assignment) :
              room_a # room_b =>
                 ~ValidFor(MergedInto(result.assignment, room_a, room_b),
                           Cardinality(Range(result.assignment)) - 1)
C21_Witness ==
    /\ StoppedBeforeCap
    /\ graph.n = 4
    /\ iteration >= 1
    /\ result.num_rooms = 2
    /\ \E st \in DOMAIN result.assignment :
          Cardinality({o \in DOMAIN result.assignment :
                          result.assignment[o] = result.assignment[st]}) = 3

\* C22: from one step of local_search to the next the happiness of the working
\* assignment does not decrease and its room count does not increase;
\* best_assignment is the working assignment and best_happiness its happiness;
\* the assignment returned is at least as happy as the working assignment, and
\* so as the greedy construction the search started from.
C22_LocalSearchNeverWorsens ==
    [][/\ InLocalSearch =>
             /\ HappinessOf(assignment') >= HappinessOf(assignment)
             /\ Cardinality(Range(assignment')) <= Cardinality(Range(assignment))
             /\ pc' = "done" =>
                   HappinessOf(result'.assignment) >= HappinessOf(assignment)
       /\ (solver = "greedy" /\ pc' \in {"local_search", "swap", "merge"}) =>
             /\ best_assignment' = assignment'
             /\ best_happiness' = HappinessOf(assignment')]_vars
C22_Witness ==
    /\ solver = "greedy"
    /\ pc = "done"
    /\ iteration >= 2
    /\ HappinessOf(result.assignment) >= 2
    /\ result.num_rooms >= 2

DistinctRooms(call) == Cardinality({call[1][st] : st \in DOMAIN call[1]}) = call[2]

\* C23: at every is_valid_solution call of the three solvers num_rooms is the
\* number of distinct room ids of the assignment that is checked: the move,
\* swap and merge candidates of a local_search round, every assignment that
\* evaluate_solution can be given, every chromosome that evaluate_fitness,
\* repair_chromosome or the final check can be given.
C23_RoomCountMatchesAssignment ==
    /\ InLocalSearch =>
          \A call \in LocalSearchChecks(assignment) : DistinctRooms(call)
    /\ (solver = "sim_annealing" /\ pc = "anneal") =>
          /\ DistinctRooms(EvaluateSolutionCheck(current_assignment))
          /\ \A D \in Assignments(graph.n) : DistinctRooms(EvaluateSolutionCheck(D))
    /\ (solver = "genetic" /\ pc \in {"generation", "offspring", "done"}) =>
          /\ \A k \in 1 .. Len(population) : DistinctRooms(ChromosomeCheck(population[k]))
          /\ \A k \in 1 .. Len(new_population) :
                DistinctRooms(ChromosomeCheck(new_population[k]))
          /\ \A chromosome \in [1 .. graph.n -> 0 .. graph.n] :
                DistinctRooms(ChromosomeCheck(chromosome))
C23_Witness ==
    /\ InLocalSearch
    /\ pc = "swap"
    /\ graph.n = 4
    /\ iteration >= 1
    /\ \E st \in DOMAIN assignment : Cardinality(Members(assignment, assignment[st])) = 1
    /\ \E st \in DOMAIN assignment : Cardinality(Members(assignment, assignment[st])) = 2

OnlyIterationCounted ==
    /\ iteration' = iteration + 1
    /\ UNCHANGED <<current_assignment, room_assignments, current_happiness,
                   best_assignment, best_happiness, no_improve_count, reheat_count,
                   temperature>>

\* C24: a simulated-annealing iteration whose sampled move cannot apply only
\* increments the iteration counter. With a single room no transfer, swap or
\* merge applies; with N rooms no transfer or split applies; and an iteration
\* that neither counts as stalled nor improves the best is one without a
\* candidate. In each case the current assignment, the room lists, the cached
\* happiness, the best state, the stall counter, the reheat count and the
\* temperature are unchanged.
C24_SkippedIterationIsNoOp ==
    [][(solver = "sim_annealing" /\ pc = "anneal" /\ iteration' = iteration + 1) =>
          /\ (/\ Len(room_assignments) = 1
              /\ (AnnealTransfer \/ AnnealSwap \/ AnnealMerge)) => OnlyIterationCounted
          /\ (/\ Len(room_assignments) = graph.n
              /\ (AnnealTransfer \/ AnnealSplit)) => OnlyIterationCounted
          /\ (/\ no_improve_count' = no_improve_count
              /\ best_happiness' = best_happiness) => OnlyIterationCounted]_vars
C24_Witness ==
    /\ solver = "sim_annealing"
    /\ pc = "anneal"
    /\ graph.n = 2
    /\ Stress(graph, 0, 1) > stress_budget
    /\ iteration = 2
    /\ no_improve_count = 0

RoomCount == Len(room_assignments)

\* C25: at the start of every simulated-annealing iteration current_assignment
\* uses exactly the room ids 0..k-1, no room is empty, and room_assignments[i]
\* holds exactly the students assigned to room i; a transfer or swap keeps the
\* room count, an accepted merge lowers it by one and an accepted split raises
\* it by one.
C25_AnnealRoomsContiguous ==
    [][(solver = "sim_annealing" /\ pc' = "anneal") =>
          /\ Range(current_assignment') = 0 .. (RoomCount' - 1)
          /\ \A idx \in 0 .. (RoomCount' - 1) :
                /\ room_assignments'[idx + 1] # <<>>
                /\ SeqToSet(room_assignments'[idx + 1])
                       = {st \in DOMAIN current_assignment' :
                             current_assignment'[st] = idx}
                /\ Len(room_assignments'[idx + 1])
                       = Cardinality(SeqToSet(room_assignments'[idx + 1]))
          /\ (pc = "anneal" /\ current_assignment' # current_assignment) =>
                /\ (AnnealTransfer \/ AnnealSwap) => RoomCount' = RoomCount
                /\ AnnealMerge => RoomCount' = RoomCount - 1
                /\ AnnealSplit => RoomCount' = RoomCount + 1]_vars
C25_Witness ==
    /\ solver = "sim_annealing"
    /\ pc = "anneal"
    /\ graph.n = 3
    /\ RoomCount = 2
    /\ iteration >= 2
    /\ NumRooms(best_assignment) = 1

C27_ReheatRaisesTemperature ==
    [][(solver = "schedule" /\ reheat_count' # reheat_count) =>
           temperature' > ScheduleCooled(temperature)]_vars

\* C28: in simulated_annealing best_happiness starts as the happiness of the
\* greedy initialisation, never decreases, and is always the happiness of
\* best_assignment; the returned assignment is best_assignment, so its happiness
\* is at least that of the greedy initialisation.
C28_BestNeverWorsens ==
    /\ [](solver = "sim_annealing" /\ pc \in {"anneal", "done"} =>
              best_happiness = HappinessOf(best_assignment))
    /\ [][solver = "sim_annealing" =>
              /\ (pc = "greedy_init" /\ pc' = "anneal") =>
                     /\ best_assignment' = current_assignment'
                     /\ best_happiness' = HappinessOf(current_assignment')
              /\ pc = "anneal" => best_happiness' >= best_happiness
              /\ (pc = "anneal" /\ pc' = "done") =>
                     /\ result'.assignment = best_assignment
                     /\ HappinessOf(result'.assignment) = best_happiness]_vars
C28_Witness ==
    /\ solver = "sim_annealing"
    /\ pc = "done"
    /\ current_happiness = -invalid_penalty
    /\ best_happiness > 0
    /\ HappinessOf(result.assignment) = best_happiness

\* the stress of the rooms of the called chromosome, and the part of it above the
\* per-room budget, in units of 1 / (number of rooms)
CalledRooms == {{k \in DOMAIN args.chromosome : args.chromosome[k] = room} :
                   room \in Range(args.chromosome)}
CalledStress(members) == PairwiseStress({k - 1 : k \in members})
CalledExcess ==
    SumOver({members \in CalledRooms :
                CalledStress(members) * Cardinality(CalledRooms) > stress_budget},
            [members \in CalledRooms |->
                CalledStress(members) * Cardinality(CalledRooms) - stress_budget])
CalledIsValid ==
    \A members \in CalledRooms :
        CalledStress(members) * Cardinality(CalledRooms) <= stress_budget

\* C29: evaluate_fitness returns the total happiness, which is >= 0, for a valid
\* chromosome, and minus the summed excess stress of the rooms above the per-room
\* budget, which is < 0, for an invalid one; so every valid chromosome scores
\* above every invalid one.
C29_ValidBeatsInvalid ==
    (DirectCall("evaluate_fitness") /\ pc = "returned") =>
        IF CalledIsValid
        THEN /\ result = HappinessOf(chromosome_to_dict(args.chromosome))
                             * FitnessScale(graph)
             /\ result >= 0
        ELSE /\ result * Cardinality(CalledRooms)
                    = 0 - CalledExcess * FitnessScale(graph)
             /\ result < 0
C29_Witness ==
    /\ DirectCall("evaluate_fitness")
    /\ pc = "returned"
    /\ graph.n = 3
    /\ args.chromosome = <<2, 0, 2>>
    /\ stress_budget = 1
    /\ Stress(graph, 0, 2) = 2
    /\ result = 0 - 9

\* C30: with 1 <= elite_count <= population_size, at the start of every
\* generation and after the last one the population holds exactly
\* population_size chromosomes of length N; producing offspring changes neither
\* the current population nor the recorded best individual.
C30_PopulationShape ==
    /\ []((/\ solver = "genetic"
           /\ pc \in {"generation", "done"}
           /\ 1 <= elite_count
           /\ elite_count <= population_size) =>
              /\ Len(population) = population_size
              /\ \A k \in 1 .. Len(population) : Len(population[k]) = graph.n)
    /\ [][(solver = "genetic" /\ pc = "offspring" /\ pc' = "offspring") =>
              /\ population' = population
              /\ best_individual' = best_individual]_vars
C30_Witness ==
    /\ solver = "genetic"
    /\ pc = "generation"
    /\ generation = 1
    /\ graph.n = 3
    /\ population_size = 3
    /\ Len(population) = 3
    /\ population[3] # population[1]

\* the scores of the current population, and the chromosome that an assignment
\* decodes
PopulationScores == fitness_scores(population, graph, stress_budget)
Encoded(D) == [i \in 1 .. graph.n |-> D[i - 1]]
EvaluationStep == pc = "generation" /\ pc' \in {"offspring", "done"}

\* C31: best_fitness never decreases and is the fitness of best_individual;
\* every evaluation of a population (the final one included) leaves it at the
\* maximum of its old value and the population's scores, and the returned
\* assignment decodes an individual of that fitness.
C31_BestOfAllGenerations ==
    /\ []((solver = "genetic" /\ best_individual # <<>>) =>
              best_fitness = evaluate_fitness(best_individual, graph, stress_budget))
    /\ [][solver = "genetic" =>
              /\ best_fitness' >= best_fitness
              /\ EvaluationStep =>
                     best_fitness' = Max({best_fitness} \cup Range(PopulationScores))
              /\ ~EvaluationStep => best_fitness' = best_fitness \/ pc = "call"
              /\ pc' = "done" =>
                     evaluate_fitness(Encoded(result'.assignment), graph, stress_budget)
                         = best_fitness']_vars
C31_Witness ==
    /\ solver = "genetic"
    /\ pc = "done"
    /\ generations = 1
    /\ best_fitness > 0
    /\ Encoded(result.assignment) = best_individual
    /\ \E k \in 1 .. Len(population) :
          evaluate_fitness(population[k], graph, stress_budget) < 0

GenerationStep == pc = "offspring" /\ pc' = "generation"
EliteCount == IF elite_count < Len(population) THEN elite_count ELSE Len(population)

\* C32: in every generation step the min(elite_count, population size)
\* highest-fitness individuals of the current population are the first
\* individuals of the next one, unchanged; with elite_count >= 1 the largest
\* fitness in the population does not decrease.
C32_ElitesCarriedOver ==
    [][(solver = "genetic" /\ GenerationStep) =>
          /\ \E idx \in [1 .. EliteCount -> 1 .. Len(population)] :
                /\ \A k, l \in 1 .. EliteCount : idx[k] = idx[l] => k = l
                /\ \A k \in 1 .. EliteCount : population'[k] = population[idx[k]]
                /\ \A k \in 1 .. EliteCount :
                      \A j \in (1 .. Len(population)) \ Range(idx) :
                         PopulationScores[j] <= PopulationScores[idx[k]]
          /\ elite_count >= 1 =>
                Max(Range(fitness_scores(population', graph, stress_budget)))
                    >= Max(Range(PopulationScores))]_vars
C32_Witness ==
    /\ solver = "genetic"
    /\ pc = "generation"
    /\ generation = 1
    /\ Len(population) = 3
    /\ PopulationScores[1] > PopulationScores[3]
    /\ PopulationScores[2] >= PopulationScores[3]

\* C33: the 'move' mutation of a crossover child of two population members
\* sets a position to a room id that the child already uses; it creates no room
\* id that the child did not have.
C33_MoveUsesExistingRoom ==
    (solver = "genetic" /\ pc = "offspring") =>
        \A i1, i2 \in 1 .. Len(population) :
           \A children \in Crossovers(population[i1], population[i2]) :
              \A k \in 1 .. 2 :
                 \A moved \in MutateMove(children[k]) :
                    SeqToSet(moved) \subseteq SeqToSet(children[k])

\* the room of the repaired chromosome that a split step takes a student from,
\* with the stress of a room and of a student towards its room mates
SplitStep == solver = "direct" /\ pc = "repair" /\ result' # result
MovedPosition == CHOOSE p \in DOMAIN result : result'[p] # result[p]
RoomOf(room) == {p - 1 : p \in {q \in DOMAIN result : result[q] = room}}
OverBudgetRooms ==
    {room \in Range(result) :
        PairwiseStress(RoomOf(room)) * Cardinality(Range(result)) > stress_budget}
StressToMates(student, mates) ==
    SumOver({e \in Pairs(graph.n) :
                /\ e[1] \in mates /\ e[2] \in mates
                /\ (e[1] = student \/ e[2] = student)}, graph.stress)

\* C34: every repair attempt on an invalid chromosome splits the room that is
\* over the per-room budget by the largest amount, moves out the member with the
\* largest stress towards the other members of that room, and puts that member
\* in a new room with id max + 1.
C34_SplitsMostOverBudgetRoom ==
    [][SplitStep =>
          LET room == result[MovedPosition]
          IN /\ \A p \in DOMAIN result : p # MovedPosition => result'[p] = result[p]
             /\ room \in OverBudgetRooms
             /\ \A other \in OverBudgetRooms :
                   PairwiseStress(RoomOf(room)) >= PairwiseStress(RoomOf(other))
             /\ \A mate \in RoomOf(room) :
                   StressToMates(MovedPosition - 1, RoomOf(room))
                       >= StressToMates(mate, RoomOf(room))
             /\ result'[MovedPosition] = Max(Range(result)) + 1]_vars

RepairCall == solver = "direct" /\ args.fn = "repair_chromosome"
InputIsValid ==
    \A room \in Range(args.chromosome) :
        PairwiseStress({p - 1 : p \in {q \in DOMAIN args.chromosome :
                                          args.chromosome[q] = room}})
            * Cardinality(Range(args.chromosome)) <= stress_budget
ResultIsValid ==
    \A room \in Range(result) :
        PairwiseStress(RoomOf(room)) * Cardinality(Range(result)) <= stress_budget

\* C35: repair_chromosome splits at most 10 times; for an input that is valid
\* already it returns the same partition, renumbered; what it returns uses the
\* room ids 0..k-1; and the returned chromosome is valid whenever N minus the
\* number of rooms of the input is at most 10.
C35_RepairWithinCap ==
    /\ [](RepairCall =>
            /\ pc \in {"repair", "returned"} => iteration <= repair_attempts
            /\ pc = "returned" =>
                  /\ Range(result) = 0 .. (Cardinality(Range(result)) - 1)
                  /\ InputIsValid =>
                        /\ iteration = 0
                        /\ SamePartition(chromosome_to_dict(result),
                                         chromosome_to_dict(args.chromosome))
                  /\ graph.n - Cardinality(Range(args.chromosome)) <= repair_attempts
                        => ResultIsValid)
    /\ [][(RepairCall /\ pc = "repair") => iteration' <= iteration + 1]_vars
\* ten splits were needed and were enough
C35_Witness ==
    /\ RepairCall
    /\ pc = "returned"
    /\ graph.n = 11
    /\ iteration = repair_attempts
    /\ ResultIsValid
    /\ Cardinality(Range(result)) = 11

ChromosomeIsValid(chromosome) ==
    ValidFor(chromosome_to_dict(chromosome), Cardinality(Range(chromosome)))

\* C36: genetic_algorithm never takes the identity fallback: the identity
\* chromosome is in the initial population with fitness 0, best_individual is
\* valid from the first evaluation on, and what is returned decodes it.
C36_FallbackNeverTaken ==
    (solver = "genetic") =>
        /\ (pc = "generation" /\ generation = 0) =>
              /\ population[1] = [i \in 1 .. graph.n |-> i - 1]
              /\ PopulationScores[1] = 0
        /\ pc \in {"offspring", "done"} =>
              /\ best_individual # <<>>
              /\ ChromosomeIsValid(best_individual)
        /\ pc = "done" =>
              /\ result.assignment = chromosome_to_dict(best_individual)
              /\ result.num_rooms = Cardinality(Range(best_individual))
C36_Witness ==
    /\ solver = "genetic"
    /\ pc = "done"
    /\ \E k \in 1 .. Len(population) : ~ChromosomeIsValid(population[k])
    /\ \E k \in 1 .. Len(population) :
          /\ ChromosomeIsValid(population[k])
          /\ HappinessOf(chromosome_to_dict(population[k])) = 0
    /\ best_fitness > 0

\* C37: the chromosome that create_greedy_chromosome builds encodes the partition
\* that greedy_construction returns for the same graph and budget.
C37_GreedyChromosomeMatchesConstruction ==
    [][(solver = "greedy" /\ pc = "greedy_construction" /\ pc' = "local_search") =>
          /\ ~GreedyChromosomeRaises(graph, stress_budget, graph.n)
          /\ SamePartition(
                 chromosome_to_dict(
                     create_greedy_chromosome(graph, stress_budget, graph.n)),
                 assignment')]_vars

====
